---- MODULE Spec2Model ----
(***************************************************************************)
(* A model of the routing-and-middleware engine of ext-service:            *)
(*   - src/ext.py: the path pattern compiler (convert_template_to_regex),  *)
(*     the router (AdvancedRouter / JSONResponseRouter) and its callbacks; *)
(*   - src/core/rate_limit.py: the fixed-window rate limiter on a shared   *)
(*     expiring store (Redis);                                             *)
(*   - src/core/cache.py: the response cache on the same store;            *)
(*   - src/core/auth.py: tokens and the authentication wrappers.           *)
(* Strings that the code inspects character by character (templates,      *)
(* paths) are sequences of one-character strings.                          *)
(***************************************************************************)
EXTENDS Integers, Sequences, FiniteSets, TLC

VARIABLES
    routes,            \* AdvancedRouter (a list): the registered route tuples
    before_callbacks,  \* AdvancedRouter.before_callbacks
    after_callbacks,   \* AdvancedRouter.after_callbacks
    result,            \* what the last router operation (add / app) produced
    store,             \* the Redis keys of the rate limiter: count and ttl
    req,               \* the rate-limited requests in flight, one per worker
    window,            \* per key: bookkeeping of the current counter lifetime
    settings,          \* core.settings: the feature flags read at start-up
    redis_client,      \* the module-level redis_client of rate_limit and cache
    reachable,         \* whether the Redis server answers
    cache_store,       \* the Redis keys of the response cache: value and ttl
    creq,              \* the cached requests in flight, one per worker
    db,                \* the version of the data the cached handler reads
    now,               \* time.time(), in seconds
    issued,            \* the token create_token returned last, with its arguments
    auth,              \* what the last operation of core.auth produced
    given,            \* per worker: the request and key prefix the limiter was given
    admin,             \* what the last administrative call returned
    metrics,           \* the collectors of core.metrics
    mreq               \* the requests inside metrics_middleware, one per worker

routerVars == <<routes, before_callbacks, after_callbacks, result>>
rlVars == <<store, req, window>>
envVars == <<settings, redis_client, reachable>>
cacheVars == <<cache_store, creq, db>>
authVars == <<now, issued, auth>>
metricsVars == <<metrics, mreq>>
vars == <<routes, before_callbacks, after_callbacks, result,
          store, req, window, settings, redis_client, reachable,
          cache_store, creq, db, now, issued, auth,
          given, admin, metrics, mreq>>

\* What the actions of one component leave alone.
nonRouterVars == <<rlVars, envVars, cacheVars, authVars, given, admin, metricsVars>>
nonStartVars == <<routerVars, envVars, cacheVars, authVars, admin, metricsVars>>
nonRateLimitVars == <<nonStartVars, given>>
nonCacheVars == <<routerVars, rlVars, envVars, authVars, given, admin, metricsVars>>
nonAuthVars == <<routerVars, rlVars, envVars, cacheVars, given, admin, metricsVars>>
nonMetricsVars == <<routerVars, rlVars, envVars, cacheVars, authVars, given, admin>>

\* Python's None.
None == [none |-> TRUE]

(***************************************************************************)
(* Bounds of the model.                                                    *)
(***************************************************************************)
MaxRoutes == 2
MaxCallbacks == 1
MaxStarted == 4
Limit == 2
Period == 2
CacheTimeout == 2
MaxWrites == 1
MaxTime == 3
JWT_EXPIRATION == 2
MaxServed == 2

(***************************************************************************)
(* Inputs of the router model.                                             *)
(***************************************************************************)
\* Characters matched by \w in the placeholder pattern (those the inputs use).
WordChars == {"a", "b", "x", "i", "d"}

\* Route templates offered for registration: "/a", "/a\n", "/<x>", "/a/<id:b>",
\* "/<x>/<x>".
TplA == <<"/", "a">>
TplALf == <<"/", "a", "\n">>
TplVar == <<"/", "<", "x", ">">>
TplTyped == <<"/", "a", "/", "<", "i", "d", ":", "b", ">">>
TplDup == <<"/", "<", "x", ">", "/", "<", "x", ">">>
Templates == {TplA, TplALf, TplVar, TplTyped, TplDup}

\* Request paths: "/a", "/a\n", "/b".
Paths == {<<"/", "a">>, <<"/", "a", "\n">>, <<"/", "b">>}

\* Values substituted for a placeholder (each a \w+ string).
Values == {<<"b">>, <<"x">>}

RequestMethods == {"GET", "POST"}
MethodLists == {{"GET"}, {"POST"}}
Callbacks == {"cb"}

\* Route options: the open map given to add(); "status" is the recognised key.
NoOptions == [k \in {} |-> 0]
Created == [status |-> 201]

\* The handlers registered, each with the options its decorator can pass:
\* index returns a plain body; login is wrapped by rate_limit and returns a
\* Response or the limiter's 429 object.
Registrations ==
    {[handler |-> "index", options |-> NoOptions],
     [handler |-> "index", options |-> Created],
     [handler |-> "login", options |-> NoOptions]}

(***************************************************************************)
(* Response objects.  type is the Python class of the object: "Response"   *)
(* is webob.Response itself, "HTTPTooManyRequests" the webob.exc subclass  *)
(* the rate limiter builds, "dict" a plain (JSON-serialisable) body.       *)
(***************************************************************************)
NoHeaders == [limit |-> -1, remaining |-> -1, resetIn |-> -1, retryAfter |-> -1]
Obj(type, status, body) ==
    [type |-> type, status |-> status, body |-> body, headers |-> NoHeaders]
NoResponse == Obj("none", 0, "none")

\* The handlers of the application registered for the dispatch through the
\* whole chain: get_task behind metrics_middleware and require_auth,
\* get_all_users behind metrics_middleware and require_roles.
DispatchRegistrations ==
    {[handler |-> "get_task", options |-> NoOptions],
     [handler |-> "get_all_users", options |-> NoOptions]}

\* What calling a handler can return.
HandlerReturns(h) ==
    CASE h = "index" -> {Obj("dict", 0, "index")}
      [] h = "get_task" -> {Obj("Response", 200, "task"),
                            Obj("Response", 404, "Task not found")}
      [] h = "get_all_users" -> {Obj("Response", 200, "users")}
      [] OTHER -> {Obj("Response", 200, "token"),
                   Obj("HTTPTooManyRequests", 429, "Rate limit exceeded")}

\* What calling a handler can raise: the 401 of require_auth, the 403 of
\* require_roles, and an exception of the database layer that no layer
\* of the chain handles.
HandlerRaises(h) ==
    CASE h = "get_task" -> {"HTTPUnauthorized", "OperationalError"}
      [] h = "get_all_users" -> {"HTTPUnauthorized", "HTTPForbidden"}
      [] OTHER -> {}

\* The handlers decorated with metrics_middleware.
MetricsWrapped == {"login", "get_task", "get_all_users"}

(***************************************************************************)
(* Path pattern compiler (src/ext.py).                                     *)
(***************************************************************************)
\* The index after the longest run of \w characters of t that starts at i.
WordEnd(t, i) ==
    CHOOSE j \in i..(Len(t) + 1) :
        /\ \A k \in i..(j - 1) : t[k] \in WordChars
        /\ (j = Len(t) + 1 \/ t[j] \notin WordChars)

NoVar == [found |-> FALSE, name |-> <<>>, type |-> <<>>, end |-> 0]

\* var_pattern matched at position i of the template:  < \w+ (: \w+)? >
\* (group 1 the name, group 2 the type or None, here <<>>).  The inputs hold
\* no parenthesised arguments, so groups 3 and 4 are always None.
var_pattern_at(t, i) ==
    IF t[i] # "<" THEN NoVar
    ELSE LET n == WordEnd(t, i + 1) IN
         IF n = i + 1 \/ n > Len(t) THEN NoVar
         ELSE IF t[n] = ">"
              THEN [found |-> TRUE, name |-> SubSeq(t, i + 1, n - 1),
                    type |-> <<>>, end |-> n + 1]
         ELSE IF t[n] = ":"
              THEN LET m == WordEnd(t, n + 1) IN
                   IF m = n + 1 \/ m > Len(t) \/ t[m] # ">" THEN NoVar
                   ELSE [found |-> TRUE, name |-> SubSeq(t, i + 1, n - 1),
                         type |-> SubSeq(t, n + 1, m - 1), end |-> m + 1]
         ELSE NoVar

\* The type names T for which the module globals of ext.py hold a function
\* T_only: ext.py defines none.
pattern_funcs == {}

\* type_of_var = match.group(2) or "basic"
type_of_var(m) == IF m.type = <<>> THEN <<"b", "a", "s", "i", "c">> ELSE m.type

Compiled(re) == [raised |-> "none", regex |-> re]
CompileError(e) == [raised |-> e, regex |-> <<>>]

\* The loop of convert_template_to_regex from position i on: literal text is
\* re.escape()d (each element then matches exactly its character), a
\* placeholder whose type has no pattern function raises KeyError.
RECURSIVE compile_from(_, _)
compile_from(t, i) ==
    IF i > Len(t) THEN Compiled(<<>>)
    ELSE LET m == var_pattern_at(t, i) IN
         IF m.found
         THEN IF type_of_var(m) \notin pattern_funcs
              THEN CompileError("KeyError")
              ELSE LET rest == compile_from(t, m.end) IN
                   IF rest.raised # "none" THEN rest
                   ELSE Compiled(<<[group |-> m.name, type |-> type_of_var(m)]>>
                                 \o rest.regex)
         ELSE LET rest == compile_from(t, i + 1) IN
              IF rest.raised # "none" THEN rest
              ELSE Compiled(<<[lit |-> t[i]]>> \o rest.regex)

\* The loop with every placeholder taken as literal text: no type is unknown.
RECURSIVE compile_literally(_, _)
compile_literally(t, i) ==
    IF i > Len(t) THEN Compiled(<<>>)
    ELSE Compiled(<<[lit |-> t[i]]>> \o compile_literally(t, i + 1).regex)

convert_template_to_regex_lenient(template) == compile_literally(template, 1)

convert_template_to_regex(template) == compile_from(template, 1)

\* re.compile(regex): two groups of one name raise re.error.
re_compile(c) ==
    IF c.raised # "none" THEN c
    ELSE IF \E i, j \in 1..Len(c.regex) :
                /\ i < j
                /\ "group" \in DOMAIN c.regex[i] /\ "group" \in DOMAIN c.regex[j]
                /\ c.regex[i].group = c.regex[j].group
         THEN CompileError("error")
         ELSE c

\* Whether the template holds a placeholder.
RECURSIVE has_placeholder_from(_, _)
has_placeholder_from(t, i) ==
    IF i > Len(t) THEN FALSE
    ELSE LET m == var_pattern_at(t, i) IN
         IF m.found THEN TRUE ELSE has_placeholder_from(t, i + 1)

\* pattern.match(path) for the compiled "^...$": every element matches one
\* character; "$" matches at the end of the path or before a final newline.
\* (A compiled regex holds only literal elements, see pattern_funcs.)
pattern_match(regex, path) ==
    LET n == Len(regex)
        body == /\ Len(path) >= n
                /\ \A k \in 1..n : "lit" \in DOMAIN regex[k] /\ path[k] = regex[k].lit
        tail == \/ Len(path) = n
                \/ Len(path) = n + 1 /\ path[n + 1] = "\n"
    IN [matched |-> body /\ tail, groupdict |-> <<>>]

(***************************************************************************)
(* Router (src/ext.py).                                                    *)
(***************************************************************************)
Found(route, groupdict) ==
    [raised |-> "none", handler |-> route.handler, params |-> groupdict,
     options |-> route.options]
\* lines 42-44 raise the exception class with no argument: allow holds the
\* methods the exception names, none.
NotFound(e) ==
    [raised |-> e, handler |-> "", params |-> <<>>, options |-> NoOptions,
     allow |-> {}]

\* The loop of find_route from route i on; matched is the loop's flag.
RECURSIVE find_route_from(_, _, _, _, _)
find_route_from(rs, i, method, path_info, matched) ==
    IF i > Len(rs)
    THEN IF matched THEN NotFound("HTTPMethodNotAllowed")
         ELSE NotFound("HTTPNotFound")
    ELSE LET match == pattern_match(rs[i].pattern, path_info) IN
         IF match.matched
         THEN IF method \in rs[i].allowed_methods
              THEN Found(rs[i], match.groupdict)
              ELSE find_route_from(rs, i + 1, method, path_info, TRUE)
         ELSE find_route_from(rs, i + 1, method, path_info, matched)

\* Mutants of find_route: the last fitting route instead of the first; the
\* matched flag never set; the matched flag set from the start.
RECURSIVE find_route_backwards(_, _, _, _, _)
find_route_backwards(rs, i, method, path_info, matched) ==
    IF i < 1
    THEN IF matched THEN NotFound("HTTPMethodNotAllowed")
         ELSE NotFound("HTTPNotFound")
    ELSE LET match == pattern_match(rs[i].pattern, path_info) IN
         IF match.matched
         THEN IF method \in rs[i].allowed_methods
              THEN Found(rs[i], match.groupdict)
              ELSE find_route_backwards(rs, i - 1, method, path_info, TRUE)
         ELSE find_route_backwards(rs, i - 1, method, path_info, matched)

find_route_last(rs, method, path_info) ==
    find_route_backwards(rs, Len(rs), method, path_info, FALSE)

find_route_unflagged(rs, method, path_info) ==
    LET r == find_route_from(rs, 1, method, path_info, FALSE) IN
    IF r.raised = "none" THEN r ELSE NotFound("HTTPNotFound")

find_route_flagged(rs, method, path_info) ==
    find_route_from(rs, 1, method, path_info, TRUE)

find_route(rs, method, path_info) == find_route_from(rs, 1, method, path_info, FALSE)

\* Whether Response(json_body=obj) can serialise obj with json.dumps.
json_serializable(obj) == obj.type = "dict"

Returned(resp) == [raised |-> "none", response |-> resp]
Raised(e) == [raised |-> e, response |-> NoResponse]

\* options.get("status", 200)
options_status(options) ==
    IF "status" \in DOMAIN options THEN options["status"] ELSE 200

\* JSONResponseRouter.modify_response: type(response) == Response is the exact
\* class, so an instance of a subclass goes to the JSON wrapping.
modify_response(response, options) ==
    IF response.type = "Response" THEN Returned(response)
    ELSE IF json_serializable(response)
         THEN Returned([type |-> "Response", status |-> options_status(options),
                        body |-> response.body, headers |-> NoHeaders])
         ELSE Raised("TypeError")

\* The status code of a webob.exc class.
ExcStatus(e) ==
    CASE e = "HTTPNotFound" -> 404
      [] e = "HTTPMethodNotAllowed" -> 405
      [] e = "HTTPTooManyRequests" -> 429
      [] e = "HTTPUnauthorized" -> 401
      [] e = "HTTPForbidden" -> 403
      [] OTHER -> 500

\* The events of one dispatch, in order.
RECURSIVE callback_events(_, _)
callback_events(kind, cbs) ==
    IF cbs = <<>> THEN <<>>
    ELSE <<[event |-> kind, who |-> Head(cbs)]>> \o callback_events(kind, Tail(cbs))

\* app, lines 53-57: an exception raised by the handler ends the dispatch
\* before the loop over the after-callbacks.
dispatch_log(handler, raised) ==
    callback_events("before", before_callbacks)
        \o <<[event |-> "handler", who |-> handler]>>
        \o (IF raised = "none" THEN callback_events("after", after_callbacks)
            ELSE <<>>)

\* The subclasses of webob.exc.HTTPException the chain raises.
HTTPExceptions ==
    {"HTTPNotFound", "HTTPMethodNotAllowed", "HTTPUnauthorized", "HTTPForbidden",
     "HTTPTooManyRequests"}

\* wsgify: an HTTPException raised inside the application is the response;
\* any other exception leaves the application.
wsgify(out) ==
    IF out.raised \in HTTPExceptions
    THEN Returned(Obj(out.raised, ExcStatus(out.raised), ""))
    ELSE out

\* metrics_middleware(func).wrapper around a call that returned or raised:
\* the status it records with track_request_time, the error type it counts,
\* and what leaves the wrapper (it raises again what was raised).  A plain
\* body has no status_code.
NotRecorded == [recorded |-> -1, error_type |-> ""]

\* Exceptions that are no subclass of Exception: line 149 lets them pass.
BaseExceptions == {"KeyboardInterrupt", "SystemExit"}

metrics_middleware(call) ==
    IF call.raised \in BaseExceptions
    THEN call @@ NotRecorded
    ELSE IF call.raised = "none" /\ call.response.type # "dict"
    THEN call @@ [recorded |-> call.response.status, error_type |-> ""]
    ELSE IF call.raised = "none"
    THEN Raised("AttributeError") @@ [recorded |-> 500, error_type |-> "AttributeError"]
    ELSE call @@ [recorded |-> 500, error_type |-> call.raised]

\* The calls of a handler with its decorators: what comes back to app.
HandlerCalls(h) ==
    LET calls == {Returned(r) : r \in HandlerReturns(h)}
                     \cup {Raised(e) : e \in HandlerRaises(h)}
    IN IF h \in MetricsWrapped
       THEN {metrics_middleware(c) : c \in calls}
       ELSE {c @@ NotRecorded : c \in calls}

\* route_decorator that appends whatever the compilation gave.
route_decorator_always(rs, compiled, handler, methods, uri_template, options) ==
    Append(rs, [pattern |-> compiled.regex, handler |-> handler,
                allowed_methods |-> methods, uri_template |-> uri_template,
                options |-> options])

\* add.route_decorator, line 66: the tuple is appended once the template is
\* converted and compiled; an exception of either leaves the list as it was.
route_decorator(rs, compiled, handler, methods, uri_template, options) ==
    IF compiled.raised = "none"
    THEN Append(rs, [pattern |-> compiled.regex, handler |-> handler,
                     allowed_methods |-> methods, uri_template |-> uri_template,
                     options |-> options])
    ELSE rs

\* AdvancedRouter.add(uri_template, methods, **options)(handler), no route_name.
Add(uri_template, methods, handler, options) ==
    /\ Len(routes) < MaxRoutes
    /\ LET c == re_compile(convert_template_to_regex(uri_template)) IN
       /\ routes' = route_decorator(routes, c, handler, methods, uri_template, options)
       /\ result' = [op |-> "add", template |-> uri_template, raised |-> c.raised]
    /\ UNCHANGED <<before_callbacks, after_callbacks, nonRouterVars>>

\* CallbackRegistry.__call__()(callback) on router.before_callbacks
RegisterBefore(callback) ==
    /\ Len(before_callbacks) < MaxCallbacks
    /\ before_callbacks' = Append(before_callbacks, callback)
    /\ result' = [op |-> "before_callbacks", callback |-> callback]
    /\ UNCHANGED <<routes, after_callbacks, nonRouterVars>>

\* CallbackRegistry.__call__()(callback) on router.after_callbacks
RegisterAfter(callback) ==
    /\ Len(after_callbacks) < MaxCallbacks
    /\ after_callbacks' = Append(after_callbacks, callback)
    /\ result' = [op |-> "after_callbacks", callback |-> callback]
    /\ UNCHANGED <<routes, before_callbacks, nonRouterVars>>

\* AdvancedRouter.app under wsgify: find the route, run the before-callbacks,
\* the handler and the after-callbacks, normalise what the handler returned.
App(method, path_info) ==
    LET found == find_route(routes, method, path_info) IN
    /\ \E call \in (IF found.raised = "none"
                    THEN HandlerCalls(found.handler)
                    ELSE {Returned(NoResponse) @@ NotRecorded}) :
         LET out == IF found.raised # "none" THEN wsgify(Raised(found.raised))
                    ELSE IF call.raised # "none" THEN wsgify(Raised(call.raised))
                    ELSE wsgify(modify_response(call.response, found.options))
         IN result' = [op |-> "app", method |-> method, path_info |-> path_info,
                       found |-> found,
                       log |-> IF found.raised = "none"
                               THEN dispatch_log(found.handler, call.raised)
                               ELSE <<>>,
                       returned |-> call.response,
                       handler_raised |-> call.raised,
                       recorded |-> call.recorded,
                       error_type |-> call.error_type,
                       raised |-> out.raised,
                       response |-> out.response]
    /\ UNCHANGED <<routes, before_callbacks, after_callbacks, nonRouterVars>>

RouterInit ==
    /\ routes = <<>>
    /\ before_callbacks = <<>>
    /\ after_callbacks = <<>>
    /\ result = [op |-> "none"]

RouterNext ==
    \/ \E t \in Templates, ms \in MethodLists, r \in Registrations :
           Add(t, ms, r.handler, r.options)
    \/ \E c \in Callbacks : RegisterBefore(c)
    \/ \E c \in Callbacks : RegisterAfter(c)
    \/ \E m \in RequestMethods, p \in Paths : App(m, p)

\* The router with the handlers of the application behind their decorators.
DispatchNext ==
    \/ \E ms \in MethodLists, r \in DispatchRegistrations :
           Add(TplA, ms, r.handler, r.options)
    \/ \E c \in Callbacks : RegisterBefore(c)
    \/ \E c \in Callbacks : RegisterAfter(c)
    \/ \E m \in RequestMethods, p \in Paths : App(m, p)

(***************************************************************************)
(* Rate limiter (src/core/rate_limit.py) on the shared store.              *)
(***************************************************************************)
RATE_LIMIT_DEFAULT == 100

\* The decorator's key_prefix (login: key_prefix="login").
KeyPrefix == "login"

\* The requests' identity fields: user_id ("" when unset), the entries of the
\* X-Forwarded-For header (<<>> when absent) and the socket peer address.
ClientRequests ==
    {[user_id |-> "", forwarded_for |-> <<>>, remote_addr |-> "10.0.0.1"],
     [user_id |-> "", forwarded_for |-> <<"10.0.0.1", "10.0.0.2">>,
      remote_addr |-> "10.0.0.9"]}

\* Requests that differ in where their identity comes from, each with the
\* key prefix of the limiter they meet: the prefixes of login and register.
SubjectRequest ==
    [user_id |-> "7", forwarded_for |-> <<"10.0.0.2">>, remote_addr |-> "10.0.0.9"]
ForwardedRequest ==
    [user_id |-> "", forwarded_for |-> <<"10.0.0.2", "10.0.0.3">>,
     remote_addr |-> "10.0.0.9"]
PeerRequest ==
    [user_id |-> "", forwarded_for |-> <<>>, remote_addr |-> "10.0.0.9"]

KeyedRequests ==
    { [request |-> SubjectRequest, key_prefix |-> "login"],
      [request |-> ForwardedRequest, key_prefix |-> "login"],
      [request |-> PeerRequest, key_prefix |-> "login"],
      [request |-> PeerRequest, key_prefix |-> "register"] }

\* lines 29-30 left out: the subject is ignored.
_get_client_identifier_ip_only(r) ==
    IF r.forwarded_for # <<>> THEN <<"ip", r.forwarded_for[1]>>
    ELSE <<"ip", IF r.remote_addr # "" THEN r.remote_addr ELSE "unknown">>

_get_client_identifier(r) ==
    IF r.user_id # "" THEN <<"user", r.user_id>>
    ELSE IF r.forwarded_for # <<>> THEN <<"ip", r.forwarded_for[1]>>
    ELSE <<"ip", IF r.remote_addr # "" THEN r.remote_addr ELSE "unknown">>

_get_rate_limit_key(r, key_prefix) ==
    <<"ratelimit", key_prefix, _get_client_identifier(r)>>

Keys ==
    {_get_rate_limit_key(r, KeyPrefix) : r \in ClientRequests}
        \cup {_get_rate_limit_key(kr.request, kr.key_prefix) : kr \in KeyedRequests}

\* A key of the store: its integer value and its time to live in seconds
\* (-1: the key never expires).  Absent stands for a key that does not exist.
Absent == [count |-> 0, ttl |-> -2]

\* GET: None (here -1) for a key that does not exist.
redis_get(e) == IF e = Absent THEN -1 ELSE e.count

\* TTL: -2 for no key, -1 for a key without expiry, else the remaining time
\* rounded to the nearest second (n or n - 1 when the key expires at the n-th
\* second from now).
redis_ttl(e) ==
    IF e = Absent THEN {-2}
    ELSE IF e.ttl = -1 THEN {-1}
    ELSE {e.ttl - 1, e.ttl}

\* INCR creates a missing key at 1, without expiry.
redis_incr(e) ==
    IF e = Absent THEN [count |-> 1, ttl |-> -1]
    ELSE [e EXCEPT !.count = e.count + 1]

redis_expire(e, seconds) ==
    IF e = Absent THEN e ELSE [e EXCEPT !.ttl = seconds]

\* current = int(count) if count else 0
current_of(count) == IF count = -1 THEN 0 ELSE count

\* rate_limit_value = limit or settings.RATE_LIMIT_DEFAULT
rate_limit_value == IF Limit # 0 THEN Limit ELSE RATE_LIMIT_DEFAULT

\* Mutant of over_limit: > for >=.
over_limit_strict(current, limit) == current > limit

\* if current >= rate_limit_value
over_limit(current, limit) == current >= limit

\* Mutant of pipeline_execute: the expiry is never set.
pipeline_execute_no_expire(e, current, period) == redis_incr(e)

\* The pipeline of the wrapper (MULTI/EXEC, applied as one step):
\* incr, and expire only when the count read before was 0.
pipeline_execute(e, current, period) ==
    IF current = 0 THEN redis_expire(redis_incr(e), period) ELSE redis_incr(e)

\* ttl if ttl > 0 else period: the seconds to the reset (X-RateLimit-Reset is
\* int(time.time() + this), recorded here relative to the current time).
reset_in(ttl, period) == IF ttl > 0 THEN ttl ELSE period

\* The 429 object of the short circuit and its headers.
too_many_requests(limit, ttl, period) ==
    [type |-> "HTTPTooManyRequests", status |-> 429, body |-> "Rate limit exceeded",
     headers |-> [limit |-> limit, remaining |-> 0,
                  resetIn |-> reset_in(ttl, period),
                  retryAfter |-> reset_in(ttl, period)]]

\* Mutant of remaining_after: the count before the increment.
remaining_before(limit, current) ==
    IF limit - current > 0 THEN limit - current ELSE 0

\* remaining = max(0, rate_limit_value - (current + 1))
remaining_after(limit, current) ==
    IF limit - (current + 1) > 0 THEN limit - (current + 1) ELSE 0

\* The inner response with the X-RateLimit headers attached.
with_rate_headers(response, limit, current, ttl, period) ==
    [response EXCEPT !.headers = [limit |-> limit,
                                  remaining |-> remaining_after(limit, current),
                                  resetIn |-> reset_in(ttl, period),
                                  retryAfter |-> -1]]

\* The response of the function wrapped by rate_limit (login).
inner_response == Obj("Response", 200, "token")

\* The workers that serve requests concurrently.
Workers == {"w1", "w2"}

Idle == [pc |-> "idle", key |-> <<>>, current |-> 0, ord |-> 0, stale |-> FALSE,
         incremented |-> FALSE, called |-> FALSE, response |-> NoResponse,
         raised |-> "none", commands |-> 0, incr_result |-> 0]

NewWindow == [started |-> 0, tainted |-> FALSE, admitted |-> 0]

\* Module import, lines 19-25: from_url, ping; a ConnectionError leaves the
\* module without a client.
connect(up) == IF up THEN "client" ELSE "None"

\* wrapper, line 91: the limiter steps aside.
rate_limit_off_both ==
    ~settings.RATE_LIMIT_ENABLED /\ redis_client.rate_limit = "None"

rate_limit_off ==
    ~settings.RATE_LIMIT_ENABLED \/ redis_client.rate_limit = "None"

\* A command sent to a server that does not answer raises
\* redis.ConnectionError; the wrapper has no handler for it, so the
\* exception leaves the wrapper.
ConnectionError(r) ==
    [r EXCEPT !.pc = "done", !.raised = "ConnectionError",
              !.response = NoResponse, !.commands = r.commands + 1]

\* wrapper, lines 91-101: step aside when switched off (the call inward is
\* then all the wrapper does); otherwise compute the key, GET the count,
\* compare.  ord numbers the requests of the key's current lifetime by
\* their start.
StartPrefixed(w, r, key_prefix) ==
    LET k == _get_rate_limit_key(r, key_prefix)
        current == current_of(redis_get(store[k]))
        ord == IF store[k] = Absent THEN 1 ELSE window[k].started + 1
    IN /\ req[w].pc = "idle"
       /\ IF rate_limit_off
          THEN /\ req' = [req EXCEPT ![w] =
                             [Idle EXCEPT !.pc = "done", !.called = TRUE,
                                          !.response = inner_response]]
               /\ UNCHANGED window
          ELSE IF ~reachable
          THEN /\ req' = [req EXCEPT ![w] =
                             ConnectionError([Idle EXCEPT !.key = k])]
               /\ UNCHANGED window
          ELSE /\ ord <= MaxStarted
               /\ req' = [req EXCEPT ![w] =
                            [Idle EXCEPT !.pc = IF over_limit(current, rate_limit_value)
                                                THEN "limited" ELSE "incr",
                                         !.key = k, !.current = current,
                                         !.ord = ord, !.commands = 1]]
               /\ window' = [window EXCEPT ![k].started = ord]
       /\ UNCHANGED <<store, nonStartVars>>

\* A request to the limiter of login.
Start(w, r) == StartPrefixed(w, r, KeyPrefix) /\ UNCHANGED given

\* A request to the limiter with the given prefix; given keeps what the
\* worker was given until the wrapper has returned.
StartKeyed(w, kr) ==
    /\ StartPrefixed(w, kr.request, kr.key_prefix)
    /\ given' = [given EXCEPT ![w] = kr]

ReturnKeyed(w) ==
    /\ req[w].pc = "done"
    /\ req' = [req EXCEPT ![w] = Idle]
    /\ given' = [given EXCEPT ![w] = None]
    /\ UNCHANGED <<store, window, nonStartVars>>

\* wrapper, lines 102-115: TTL, build the 429 object, return it.
Limited(w) ==
    /\ req[w].pc = "limited"
    /\ IF ~reachable
       THEN req' = [req EXCEPT ![w] = ConnectionError(req[w])]
       ELSE \E ttl \in redis_ttl(store[req[w].key]) :
              req' = [req EXCEPT ![w].pc = "done",
                                 ![w].commands = req[w].commands + 1,
                                 ![w].response =
                                     too_many_requests(rate_limit_value, ttl, Period)]
    /\ UNCHANGED <<store, window, nonRateLimitVars>>

\* wrapper, lines 117-123: the incr/expire pipeline.
Incr(w) ==
    LET k == req[w].key IN
    /\ req[w].pc = "incr"
    /\ IF ~reachable
       THEN /\ req' = [req EXCEPT ![w] = ConnectionError(req[w])]
            /\ UNCHANGED <<store, window>>
       ELSE /\ store' = [store EXCEPT ![k] =
                            pipeline_execute(store[k], req[w].current, Period)]
            /\ req' = [req EXCEPT ![w].pc = "call", ![w].incremented = TRUE,
                                  ![w].commands = req[w].commands + 1,
                                  ![w].incr_result =
                                      pipeline_execute(store[k], req[w].current,
                                                       Period).count]
            /\ window' = [window EXCEPT ![k].tainted =
                             window[k].tainted \/ req[w].stale]
    /\ UNCHANGED nonRateLimitVars

\* wrapper, line 125: the call inward.  admitted counts the calls of the
\* requests that incremented the key's current lifetime.
Call(w) ==
    LET k == req[w].key IN
    /\ req[w].pc = "call"
    /\ req' = [req EXCEPT ![w].pc = "headers", ![w].called = TRUE,
                          ![w].response = inner_response]
    /\ window' = [window EXCEPT ![k].admitted =
                    IF req[w].stale THEN window[k].admitted
                    ELSE window[k].admitted + 1]
    /\ UNCHANGED <<store, nonRateLimitVars>>

\* wrapper, lines 127-135: TTL, attach the headers, return.
Headers(w) ==
    /\ req[w].pc = "headers"
    /\ IF ~reachable
       THEN req' = [req EXCEPT ![w] = ConnectionError(req[w])]
       ELSE \E ttl \in redis_ttl(store[req[w].key]) :
              req' = [req EXCEPT ![w].pc = "done",
                                 ![w].commands = req[w].commands + 1,
                                 ![w].response =
                                     with_rate_headers(req[w].response, rate_limit_value,
                                                       req[w].current, ttl, Period)]
    /\ UNCHANGED <<store, window, nonRateLimitVars>>

\* The wrapper has returned; the worker takes the next request.
Return(w) ==
    /\ req[w].pc = "done"
    /\ req' = [req EXCEPT ![w] = Idle]
    /\ UNCHANGED <<store, window, nonRateLimitVars>>

\* One second passes in the store: times to live run down and a key whose
\* time is up is removed.  A request in flight on a removed key is stale: it
\* read the count of a lifetime that is over.
Expired(e) == e # Absent /\ e.ttl = 1

Tick ==
    /\ \E k \in Keys : store[k] # Absent /\ store[k].ttl >= 1
    /\ store' = [k \in Keys |->
                    IF Expired(store[k]) THEN Absent
                    ELSE IF store[k].ttl > 1
                         THEN [store[k] EXCEPT !.ttl = store[k].ttl - 1]
                         ELSE store[k]]
    /\ window' = [k \in Keys |-> IF Expired(store[k]) THEN NewWindow ELSE window[k]]
    /\ req' = [w \in Workers |->
                  IF req[w].pc # "idle" /\ Expired(store[req[w].key])
                  THEN [req[w] EXCEPT !.stale = TRUE] ELSE req[w]]
    /\ UNCHANGED nonRateLimitVars

\* The Redis server stops answering, or answers again.
StoreDown ==
    /\ reachable
    /\ reachable' = FALSE
    /\ UNCHANGED <<settings, redis_client, routerVars, rlVars, cacheVars, authVars,
                   given, admin, metricsVars>>

StoreUp ==
    /\ ~reachable
    /\ reachable' = TRUE
    /\ UNCHANGED <<settings, redis_client, routerVars, rlVars, cacheVars, authVars,
                   given, admin, metricsVars>>

\* The defaults of core.settings, with a server that answered at import.
EnvInit ==
    /\ settings = [RATE_LIMIT_ENABLED |-> TRUE, CACHE_ENABLED |-> TRUE]
    /\ reachable = TRUE
    /\ redis_client = [rate_limit |-> connect(reachable), cache |-> connect(reachable)]

\* Any setting of the flags, with a server that did or did not answer at import.
EnvInitAny ==
    /\ settings \in [RATE_LIMIT_ENABLED : BOOLEAN, CACHE_ENABLED : BOOLEAN]
    /\ reachable \in BOOLEAN
    /\ redis_client = [rate_limit |-> connect(reachable), cache |-> connect(reachable)]

RateLimitInit ==
    /\ store = [k \in Keys |-> Absent]
    /\ req = [w \in Workers |-> Idle]
    /\ window = [k \in Keys |-> NewWindow]
    /\ given = [w \in Workers |-> None]

RateLimitSteps ==
    \/ \E w \in Workers : Limited(w)
    \/ \E w \in Workers : Incr(w)
    \/ \E w \in Workers : Call(w)
    \/ \E w \in Workers : Headers(w)
    \/ \E w \in Workers : Return(w)
    \/ Tick

\* Requests arrive at any time, on any free worker.
RateLimitNext ==
    \/ \E w \in Workers, r \in ClientRequests : Start(w, r)
    \/ RateLimitSteps

\* Requests arrive one after the other: a request starts when none is in flight.
RateLimitSeqNext ==
    \/ \E w \in Workers, r \in ClientRequests :
           (\A v \in Workers : req[v].pc = "idle") /\ Start(w, r)
    \/ RateLimitSteps

\* The requests started in the current lifetimes of the keys ks.
RECURSIVE StartedIn(_)
StartedIn(ks) ==
    IF ks = {} THEN 0
    ELSE LET k == CHOOSE x \in ks : TRUE IN window[k].started + StartedIn(ks \ {k})

\* Requests of several identities and prefixes, one after the other, at most
\* MaxStarted of them in the current lifetimes of the keys.
RateLimitKeysNext ==
    \/ \E w \in Workers, kr \in KeyedRequests :
           /\ \A v \in Workers : req[v].pc = "idle"
           /\ StartedIn(Keys) < MaxStarted
           /\ StartKeyed(w, kr)
    \/ \E w \in Workers : Limited(w)
    \/ \E w \in Workers : Incr(w)
    \/ \E w \in Workers : Call(w)
    \/ \E w \in Workers : Headers(w)
    \/ \E w \in Workers : ReturnKeyed(w)
    \/ Tick

\* The limiter under any start-up environment and a server that comes and goes.
RateLimitEnvNext ==
    \/ RateLimitNext
    \/ StoreDown
    \/ StoreUp

(***************************************************************************)
(* Response cache (src/core/cache.py) on the shared store.  The cache and  *)
(* the limiter use one Redis database under different key prefixes; the    *)
(* model keeps the keys of each in a variable of its own.                  *)
(***************************************************************************)
CACHE_DEFAULT_TIMEOUT == 300

\* Strings that enter the cache key, as sequences of characters.
PathTasks == <<"/", "t">>
NoQuery == <<>>
QueryDone == <<"d">>
Unset == <<>>
User1 == <<"1">>
User2 == <<"2">>
\* Paths of further cached handlers: a task that does not exist (get_task
\* answers 404), a handler whose body is not text, and a handler decorated
\* with cache_response() without a timeout.
PathMissing == <<"/", "t", "/", "9">>
PathBinary == <<"/", "b">>
PathNoTimeout == <<"/", "d">>

\* The requests that reach the cached handlers: they sit behind require_auth,
\* which sets user_id.
CacheRequests ==
    { [method |-> "GET", path_info |-> PathTasks, query_string |-> NoQuery,
       headers |-> NoOptions, user_id |-> User1],
      [method |-> "GET", path_info |-> PathTasks, query_string |-> NoQuery,
       headers |-> NoOptions, user_id |-> User2],
      [method |-> "GET", path_info |-> PathTasks, query_string |-> QueryDone,
       headers |-> NoOptions, user_id |-> User1],
      [method |-> "POST", path_info |-> PathTasks, query_string |-> NoQuery,
       headers |-> NoOptions, user_id |-> User1] }

\* cache_response(timeout=60): no vary_headers.
VaryHeaders == <<>>

\* ":".join(key_parts)
RECURSIVE Join(_, _)
Join(parts, sep) ==
    IF parts = <<>> THEN <<>>
    ELSE IF Len(parts) = 1 THEN parts[1]
    ELSE parts[1] \o sep \o Join(Tail(parts), sep)

\* lines 99-101: one part "header:value" per vary header the request carries.
RECURSIVE vary_parts(_, _)
vary_parts(request, vary_headers) ==
    IF vary_headers = <<>> THEN <<>>
    ELSE (IF Head(vary_headers) \in DOMAIN request.headers
          THEN <<Head(vary_headers) \o <<":">> \o request.headers[Head(vary_headers)]>>
          ELSE <<>>)
         \o vary_parts(request, Tail(vary_headers))

\* hashlib.md5(...).hexdigest(): a digest that tells two key strings apart.
md5(key_string) == [md5 |-> key_string]

\* line 103-104 left out: the key ignores who asks.
_generate_response_cache_key_no_user(request, vary_headers) ==
    LET key_parts ==
            <<request.path_info>>
            \o (IF request.query_string # <<>> THEN <<request.query_string>> ELSE <<>>)
            \o vary_parts(request, vary_headers)
    IN [prefix |-> "response:", digest |-> md5(Join(key_parts, <<":">>))]

\* _generate_response_cache_key(req, vary_headers)
_generate_response_cache_key(request, vary_headers) ==
    LET key_parts ==
            <<request.path_info>>
            \o (IF request.query_string # <<>> THEN <<request.query_string>> ELSE <<>>)
            \o vary_parts(request, vary_headers)
            \o (IF request.user_id # Unset
                THEN <<<<"u", "s", "e", "r", ":">> \o request.user_id>>
                ELSE <<>>)
    IN [prefix |-> "response:", digest |-> md5(Join(key_parts, <<":">>))]

\* The requests of one subject that read and write the tasks, and one to a
\* handler whose entries stay for the default time.
TaskRequests ==
    { [method |-> m, path_info |-> PathTasks, query_string |-> NoQuery,
       headers |-> NoOptions, user_id |-> User1] : m \in {"GET", "POST"} }
    \cup
    { [method |-> "GET", path_info |-> PathNoTimeout, query_string |-> NoQuery,
       headers |-> NoOptions, user_id |-> User1] }

\* The requests of one subject to handlers that differ in what the cache
\* can store and for how long.
StoreRequests ==
    { [method |-> "GET", path_info |-> p, query_string |-> NoQuery,
       headers |-> NoOptions, user_id |-> User1] :
         p \in {PathTasks, PathMissing, PathBinary, PathNoTimeout} }

\* Requests whose path holds the separator of the key string: the path "/t"
\* read by subject 1 and the path "/t:user:1" read by nobody; the path "/t:d"
\* and the path "/t" with the query "d".
PathTasksColonDone == <<"/", "t", ":", "d">>
PathTasksColonUser1 == <<"/", "t", ":", "u", "s", "e", "r", ":", "1">>

FingerprintRequests ==
    { [method |-> "GET", path_info |-> PathTasks, query_string |-> NoQuery,
       headers |-> NoOptions, user_id |-> User1],
      [method |-> "GET", path_info |-> PathTasksColonUser1, query_string |-> NoQuery,
       headers |-> NoOptions, user_id |-> Unset],
      [method |-> "GET", path_info |-> PathTasksColonDone, query_string |-> NoQuery,
       headers |-> NoOptions, user_id |-> User1],
      [method |-> "GET", path_info |-> PathTasks, query_string |-> QueryDone,
       headers |-> NoOptions, user_id |-> User1] }

\* _generate_cache_key("f"): the key of a function without arguments wrapped
\* by cache("f").
FunctionCacheKey == [prefix |-> "cache:", digest |-> md5(<<"f">>)]

CacheKeys ==
    {_generate_response_cache_key(r, VaryHeaders) :
        r \in CacheRequests \cup TaskRequests \cup StoreRequests \cup FingerprintRequests}
    \cup {FunctionCacheKey}

\* bytes.decode() and the encoding of a text body by Response(body=...).
\* Bytes that are not UTF-8 make decode() raise UnicodeDecodeError, a
\* ValueError.
InvalidUtf8 == [invalid_utf8 |-> TRUE]
UnicodeDecodeError(body) == body.bytes = InvalidUtf8
decode(body) == [str |-> body.bytes]
encode(text) == [bytes |-> text.str]

\* The response of the wrapped handler: what the user asked for, as the data
\* stand when the handler runs.
\* get_task answers a task that does not exist with
\* response_ok({"error": "Task not found"}, status=404), a returned response.
handler_response(request, version) ==
    [status |-> IF request.path_info = PathMissing THEN 404 ELSE 200,
     content_type |-> "application/json",
     body |-> IF request.path_info = PathBinary
              THEN [bytes |-> InvalidUtf8]
              ELSE [bytes |-> [path_info |-> request.path_info,
                               query_string |-> request.query_string,
                               user_id |-> request.user_id,
                               version |-> version]],
     headers |-> [name \in {"Content-Type"} |-> "application/json"]]

\* The timeout argument of the decorator of the handler; 0 stands for the
\* default None.
timeout(request) == IF request.path_info = PathNoTimeout THEN 0 ELSE CacheTimeout

\* lines 144-149 with the body left out of the stored value.
response_data_no_body(response) ==
    [json |-> [body |-> [str |-> <<>>], status |-> response.status,
               content_type |-> response.content_type,
               headers |-> response.headers]]

\* lines 144-149 and json.dumps: the stored value.
response_data(response) ==
    [json |-> [body |-> decode(response.body), status |-> response.status,
               content_type |-> response.content_type,
               headers |-> response.headers]]

\* json.loads
json_loads(value) == value.json

\* response.headers[name] = value
set_header(response, name, value) ==
    [response EXCEPT !.headers =
        [n \in DOMAIN response.headers \cup {name} |->
            IF n = name THEN value ELSE response.headers[n]]]

\* lines 125-137 without line 135: a hit that is not tagged.
cached_response_untagged(cached_data) ==
    LET cached == json_loads(cached_data) IN
    [status |-> cached.status, content_type |-> cached.content_type,
     body |-> encode(cached.body), headers |-> cached.headers]

\* lines 125-137: the response built from a stored value.
cached_response(cached_data) ==
    LET cached == json_loads(cached_data) IN
    set_header([status |-> cached.status, content_type |-> cached.content_type,
                body |-> encode(cached.body), headers |-> cached.headers],
               "X-Cache", "HIT")

\* line 153 with the argument ignored.
cache_ex_default(t) == CACHE_DEFAULT_TIMEOUT

\* line 153: ex=timeout or settings.CACHE_DEFAULT_TIMEOUT
cache_ex(t) == IF t # 0 THEN t ELSE CACHE_DEFAULT_TIMEOUT

NoEntry == [ttl |-> -2]

\* wrapper, line 114: the cache steps aside.
cache_off == ~settings.CACHE_ENABLED \/ redis_client.cache = "None"

\* line 117 with every method let through to the cache.
cacheable_any(request) == TRUE

\* wrapper, line 117: only a GET goes on to the cache.
cacheable(request) == request.method = "GET"

\* commands counts the commands the request has sent to the store.
CIdle == [pc |-> "idle", request |-> None, key |-> None, cached_data |-> None,
          response |-> None, called |-> FALSE, raised |-> "none",
          old |-> FALSE, prev |-> {}, commands |-> 0]

\* The call of the wrapped handler: a POST writes the data.
db_after(request) == IF request.method = "POST" THEN db + 1 ELSE db

\* wrapper, lines 114-139: step aside when switched off or when the method
\* is not GET (the call inward is then all the wrapper does); otherwise
\* compute the key and GET it, and on a hit build the response from the
\* stored value.  prev holds the workers whose request had come back when
\* this one began.
CStart(w, request) ==
    LET k == _generate_response_cache_key(request, VaryHeaders)
        began == [CIdle EXCEPT !.request = request,
                               !.prev = {v \in Workers : creq[v].pc = "done"}]
    IN /\ creq[w].pc = "idle"
       /\ db_after(request) <= MaxWrites
       /\ IF cache_off \/ ~cacheable(request)
          THEN /\ creq' = [creq EXCEPT ![w] =
                              [began EXCEPT !.pc = "done", !.called = TRUE,
                                            !.response = handler_response(request, db)]]
               /\ db' = db_after(request)
          ELSE /\ creq' = [creq EXCEPT ![w] =
                    IF ~reachable
                    THEN [began EXCEPT !.pc = "done", !.key = k, !.commands = 1,
                                       !.raised = "ConnectionError"]
                    ELSE IF cache_store[k] # NoEntry
                    THEN [began EXCEPT !.pc = "done", !.key = k, !.commands = 1,
                                       !.cached_data = cache_store[k].value,
                                       !.response = cached_response(cache_store[k].value)]
                    ELSE [began EXCEPT !.pc = "call", !.key = k, !.commands = 1]]
               /\ UNCHANGED db
       /\ UNCHANGED <<cache_store, nonCacheVars>>

\* wrapper, line 141: the call inward after a miss.
CCall(w) ==
    /\ creq[w].pc = "call"
    /\ creq' = [creq EXCEPT ![w].pc = "set", ![w].called = TRUE,
                            ![w].response = handler_response(creq[w].request, db)]
    /\ db' = db_after(creq[w].request)
    /\ UNCHANGED <<cache_store, nonCacheVars>>

\* wrapper, lines 143-161: SET the value with its time to live, then tag the
\* response.  A body that does not decode raises at line 145, before the SET
\* and the tag, and line 158 catches it.  A ConnectionError is none of the
\* exceptions caught at line 158.
CStore(w) ==
    /\ creq[w].pc = "set"
    /\ IF UnicodeDecodeError(creq[w].response.body)
       THEN /\ creq' = [creq EXCEPT ![w].pc = "done"]
            /\ UNCHANGED cache_store
       ELSE IF ~reachable
       THEN /\ creq' = [creq EXCEPT ![w].pc = "done", ![w].response = None,
                                    ![w].commands = 2,
                                    ![w].raised = "ConnectionError"]
            /\ UNCHANGED cache_store
       ELSE /\ cache_store' = [cache_store EXCEPT ![creq[w].key] =
                                  [value |-> response_data(creq[w].response),
                                   ttl |-> cache_ex(timeout(creq[w].request))]]
            /\ creq' = [creq EXCEPT ![w].pc = "done", ![w].commands = 2,
                                    ![w].response =
                                        set_header(creq[w].response, "X-Cache", "MISS")]
    /\ UNCHANGED <<db, nonCacheVars>>

\* The wrapper has returned; the worker takes the next request.
CReturn(w) ==
    /\ creq[w].pc = "done"
    /\ creq' = [v \in Workers |->
                   IF v = w THEN CIdle
                   ELSE [creq[v] EXCEPT !.prev = creq[v].prev \ {w}]]
    /\ UNCHANGED <<cache_store, db, nonCacheVars>>

\* One second passes in the store: times to live run down and an entry whose
\* time is up is removed.  A request on a removed entry is marked old.
CacheExpired_early(e) == e # NoEntry /\ e.ttl <= 2

CacheExpired(e) == e # NoEntry /\ e.ttl = 1

CacheTick ==
    /\ \E k \in CacheKeys : cache_store[k] # NoEntry
    /\ cache_store' = [k \in CacheKeys |->
                          IF CacheExpired(cache_store[k]) THEN NoEntry
                          ELSE IF cache_store[k] # NoEntry
                               THEN [cache_store[k] EXCEPT !.ttl = cache_store[k].ttl - 1]
                               ELSE NoEntry]
    /\ creq' = [w \in Workers |->
                   IF creq[w].key # None /\ CacheExpired(cache_store[creq[w].key])
                   THEN [creq[w] EXCEPT !.old = TRUE] ELSE creq[w]]
    /\ UNCHANGED <<db, nonCacheVars>>

\* redis_client.keys("*" + pattern + "*"): the stored keys that hold the
\* pattern.  The text of a cache key is its prefix and a digest of
\* hexadecimal digits, so a pattern with a character that is no such digit is
\* found in the prefix or not at all.  The text of a limiter key is
\* "ratelimit:", spelled out, and then the prefix and the identity as words.
ResponsePrefix == <<"r", "e", "s", "p", "o", "n", "s", "e", ":">>
CachePrefix == <<"c", "a", "c", "h", "e", ":">>
RateLimitPrefix == <<"r", "a", "t", "e", "l", "i", "m", "i", "t", ":">>
EvictPatterns == {ResponsePrefix, PathTasks, <<>>, <<"user", ":", "7">>}

Contains(text, pattern) ==
    \E i \in 0..(Len(text) - Len(pattern)) :
        SubSeq(text, i + 1, i + Len(pattern)) = pattern

key_text(k) == IF k.prefix = "response:" THEN ResponsePrefix ELSE CachePrefix
rate_key_text(k) == RateLimitPrefix \o <<k[2], ":", k[3][1], ":", k[3][2]>>

keys(pattern) ==
    {k \in CacheKeys : cache_store[k] # NoEntry /\ Contains(key_text(k), pattern)}

\* The same call finds the keys of the limiter: one database holds both.
rate_keys(pattern) ==
    {k \in Keys : store[k] # Absent /\ Contains(rate_key_text(k), pattern)}

\* redis_client.delete(*keys): the entries go; a request on one of them is
\* marked old.
delete(ks) ==
    /\ cache_store' = [k \in CacheKeys |-> IF k \in ks THEN NoEntry ELSE cache_store[k]]
    /\ creq' = [w \in Workers |->
                   IF creq[w].key \in ks THEN [creq[w] EXCEPT !.old = TRUE] ELSE creq[w]]

\* DEL of keys of the limiter: the lifetime of the counter is over, as by
\* expiry.
delete_counters(ks) ==
    /\ store' = [k \in Keys |-> IF k \in ks THEN Absent ELSE store[k]]
    /\ window' = [k \in Keys |-> IF k \in ks THEN NewWindow ELSE window[k]]
    /\ req' = [w \in Workers |->
                  IF req[w].pc # "idle" /\ req[w].key \in ks
                  THEN [req[w] EXCEPT !.stale = TRUE] ELSE req[w]]

\* What the administrative calls leave alone.
nonStoreVars == <<db, given, routerVars, envVars, authVars, metricsVars>>

\* invalidate_cache(pattern): 0 without a client or without keys, else the
\* number of keys deleted.
InvalidateCache(pattern) ==
    /\ reachable \/ redis_client.cache = "None"
    /\ IF redis_client.cache = "None"
       THEN /\ admin' = [op |-> "invalidate_cache", returned |-> 0]
            /\ UNCHANGED <<cache_store, creq, rlVars>>
       ELSE /\ delete(keys(pattern))
            /\ delete_counters(rate_keys(pattern))
            /\ admin' = [op |-> "invalidate_cache",
                         returned |-> Cardinality(keys(pattern))
                                          + Cardinality(rate_keys(pattern))]
    /\ UNCHANGED nonStoreVars

\* keys("cache:*"), keys("response:*"): the stored keys that begin so.
keys_with_prefix(prefix) ==
    {k \in CacheKeys : cache_store[k] # NoEntry /\ k.prefix = prefix}

\* line 183 without the keys of the function cache.
clear_cache_keys_response == keys_with_prefix("response:")

\* line 183
clear_cache_keys == keys_with_prefix("cache:") \cup keys_with_prefix("response:")

\* clear_cache(): 0 without a client or without keys, else the number of
\* keys deleted.
ClearCache ==
    /\ reachable \/ redis_client.cache = "None"
    /\ IF redis_client.cache = "None"
       THEN /\ admin' = [op |-> "clear_cache", returned |-> 0]
            /\ UNCHANGED <<cache_store, creq>>
       ELSE /\ delete(clear_cache_keys)
            /\ admin' = [op |-> "clear_cache", returned |-> Cardinality(clear_cache_keys)]
    /\ UNCHANGED <<rlVars, nonStoreVars>>

\* Line 79 deleting every counter of the prefix.
reset_keys_of_prefix(rate_key) == {k \in Keys : store[k] # Absent /\ k[2] = rate_key[2]}

\* redis_client.delete(rate_key), line 80
reset_keys(rate_key) == {k \in {rate_key} : store[k] # Absent}

\* reset_rate_limit(req, key_prefix): False when the limiter is off, else
\* whether a key was deleted.
ResetRateLimit(kr) ==
    LET rate_key == _get_rate_limit_key(kr.request, kr.key_prefix) IN
    /\ reachable \/ rate_limit_off
    /\ IF rate_limit_off
       THEN /\ admin' = [op |-> "reset_rate_limit", returned |-> FALSE]
            /\ UNCHANGED rlVars
       ELSE /\ delete_counters(reset_keys(rate_key))
            /\ admin' = [op |-> "reset_rate_limit",
                         returned |-> reset_keys(rate_key) # {}]
    /\ UNCHANGED <<cache_store, creq, nonStoreVars>>

\* wrapper of cache("f", timeout), lines 60-86, around a function without
\* arguments that returns the data: a stored value is returned, else the
\* function is called and its result stored.
CacheCall ==
    /\ reachable \/ cache_off
    /\ IF cache_off \/ cache_store[FunctionCacheKey] # NoEntry
       THEN UNCHANGED cache_store
       ELSE cache_store' = [cache_store EXCEPT ![FunctionCacheKey] =
                               [value |-> [json |-> db], ttl |-> cache_ex(CacheTimeout)]]
    /\ UNCHANGED <<creq, db, nonCacheVars>>

CacheInit ==
    /\ cache_store = [k \in CacheKeys |-> NoEntry]
    /\ creq = [w \in Workers |-> CIdle]
    /\ db = 0

CacheSteps ==
    \/ \E w \in Workers : CCall(w)
    \/ \E w \in Workers : CStore(w)
    \/ \E w \in Workers : CReturn(w)
    \/ CacheTick

\* Requests arrive at any time, on any free worker.
CacheNext ==
    \/ \E w \in Workers, r \in CacheRequests : CStart(w, r)
    \/ CacheSteps

\* Requests arrive one after the other: a request starts when none is in flight.
CacheSeqNext ==
    \/ \E w \in Workers, r \in CacheRequests :
           (\A v \in Workers : creq[v].pc \in {"idle", "done"}) /\ CStart(w, r)
    \/ CacheSteps

\* A second passes; an entry stored with the default time to live is
\* followed for MaxTime seconds.
CacheTickWatched ==
    /\ \A k \in CacheKeys :
           \/ cache_store[k] = NoEntry
           \/ cache_store[k].ttl <= CacheTimeout
           \/ cache_store[k].ttl > CACHE_DEFAULT_TIMEOUT - MaxTime
    /\ CacheTick

\* Reads and writes of the tasks one after the other, with the eviction
\* calls.
CacheOpsNext ==
    \/ \E w \in Workers, r \in TaskRequests :
           (\A v \in Workers : creq[v].pc \in {"idle", "done"}) /\ CStart(w, r)
    \/ \E w \in Workers : CCall(w)
    \/ \E w \in Workers : CStore(w)
    \/ \E w \in Workers : CReturn(w)
    \/ CacheTickWatched
    \/ ClearCache
    \/ \E p \in EvictPatterns : InvalidateCache(p)

\* Requests with the separator in their fields, one after the other.
CacheKeysNext ==
    \/ \E w \in Workers, r \in FingerprintRequests :
           (\A v \in Workers : creq[v].pc \in {"idle", "done"}) /\ CStart(w, r)
    \/ CacheSteps

\* The administrative calls among requests to the cache and to the limiter
\* that arrive one after the other, and calls of a cached function.
AdminRequests ==
    { [method |-> "GET", path_info |-> PathTasks, query_string |-> NoQuery,
       headers |-> NoOptions, user_id |-> User1] }

\* The requests of the limiter among them: two identities under one prefix,
\* one identity under two prefixes.
AdminKeyedRequests == {kr \in KeyedRequests : kr.request # ForwardedRequest}

NoneInFlight ==
    \A v \in Workers : req[v].pc = "idle" /\ creq[v].pc = "idle"

\* The caller of an administrative call has its result.
AdminReturn ==
    /\ admin.op # "none"
    /\ admin' = [op |-> "none", returned |-> None]
    /\ UNCHANGED <<rlVars, cache_store, creq, nonStoreVars>>

CallReturned == admin.op = "none"

AdminNext ==
    \/ \E r \in AdminRequests : CallReturned /\ NoneInFlight /\ CStart("w1", r)
    \/ \E w \in Workers : CallReturned /\ CCall(w)
    \/ \E w \in Workers : CallReturned /\ CStore(w)
    \/ \E w \in Workers : CallReturned /\ CReturn(w)
    \/ CallReturned /\ CacheCall
    \/ \E kr \in AdminKeyedRequests :
           CallReturned /\ NoneInFlight /\ StartedIn(Keys) < MaxStarted /\ StartKeyed("w1", kr)
    \/ \E w \in Workers : CallReturned /\ Limited(w)
    \/ \E w \in Workers : CallReturned /\ Incr(w)
    \/ \E w \in Workers : CallReturned /\ Call(w)
    \/ \E w \in Workers : CallReturned /\ Headers(w)
    \/ \E w \in Workers : CallReturned /\ ReturnKeyed(w)
    \/ \E kr \in AdminKeyedRequests : CallReturned /\ ResetRateLimit(kr)
    \/ \E p \in EvictPatterns : CallReturned /\ InvalidateCache(p)
    \/ CallReturned /\ ClearCache
    \/ AdminReturn

\* Handlers of each kind called one after the other.
CacheStoreNext ==
    \/ \E w \in Workers, r \in StoreRequests :
           (\A v \in Workers : creq[v].pc \in {"idle", "done"}) /\ CStart(w, r)
    \/ \E w \in Workers : CCall(w)
    \/ \E w \in Workers : CStore(w)
    \/ \E w \in Workers : CReturn(w)
    \/ CacheTickWatched

(***************************************************************************)
(* Tokens and the authentication wrappers (src/core/auth.py).  Python      *)
(* values of different types are records of different fields: [int |-> 1], *)
(* [str |-> "1"], [list |-> <<"user">>], None.                             *)
(***************************************************************************)
JWT_SECRET == "secret"

\* The arguments create_token is called with.
UserIds == {[int |-> 1], [str |-> "2"]}
RoleLists == {None, [list |-> <<>>], [list |-> <<"user">>], [list |-> <<"admin", "user">>]}
ExtraClaims == {NoOptions, [tenant |-> [str |-> "acme"]]}

\* The role sets handed to require_roles.
RequiredRoles == {<<"admin", "staff">>}

\* str(user_id)
str(value) == IF "int" \in DOMAIN value THEN [str |-> ToString(value.int)] ELSE value

\* The truth value of a Python object in a condition.
truthy(value) ==
    /\ value # None
    /\ "str" \in DOMAIN value => value.str # ""
    /\ "list" \in DOMAIN value => value.list # <<>>

\* jwt.encode(payload, key, algorithm): the payload and a signature of it
\* under the key.
jwt_encode(payload, key) ==
    [payload |-> payload, signature |-> [key |-> key, signed |-> payload]]

\* jwt.decode with an expiry check that lets the second of expiry pass.
jwt_decode_late(token, key, t) ==
    IF "payload" \notin DOMAIN token
    THEN [raised |-> "DecodeError", payload |-> None]
    ELSE IF token.signature # [key |-> key, signed |-> token.payload]
    THEN [raised |-> "InvalidSignatureError", payload |-> None]
    ELSE IF "exp" \in DOMAIN token.payload /\ token.payload.exp < t
    THEN [raised |-> "ExpiredSignatureError", payload |-> None]
    ELSE [raised |-> "none", payload |-> token.payload]

\* jwt.decode(token, key, algorithms) at time t: the format, then the
\* signature, then the expiry (PyJWT 2: expired when exp <= now).
jwt_decode(token, key, t) ==
    IF "payload" \notin DOMAIN token
    THEN [raised |-> "DecodeError", payload |-> None]
    ELSE IF token.signature # [key |-> key, signed |-> token.payload]
    THEN [raised |-> "InvalidSignatureError", payload |-> None]
    ELSE IF "exp" \in DOMAIN token.payload /\ token.payload.exp <= t
    THEN [raised |-> "ExpiredSignatureError", payload |-> None]
    ELSE [raised |-> "none", payload |-> token.payload]

\* The subclasses of jwt.InvalidTokenError other than ExpiredSignatureError.
InvalidTokenError == {"DecodeError", "InvalidSignatureError"}

\* create_token that writes the roles claim whatever the role list is.
create_token_roles_always(user_id, roles, extra_claims, t) ==
    LET payload == extra_claims @@
                   [sub |-> str(user_id), iat |-> t, exp |-> t + JWT_EXPIRATION]
    IN jwt_encode([roles |-> roles] @@ payload, JWT_SECRET)

\* create_token(user_id, roles, **extra_claims) at time t
create_token(user_id, roles, extra_claims, t) ==
    LET payload == extra_claims @@
                   [sub |-> str(user_id), iat |-> t, exp |-> t + JWT_EXPIRATION]
    IN jwt_encode(IF truthy(roles) THEN [roles |-> roles] @@ payload ELSE payload,
                  JWT_SECRET)

\* raise exc.HTTPUnauthorized(json={"error": ...})
HTTPUnauthorized(error) ==
    [raised |-> "HTTPUnauthorized", status |-> 401, error |-> error, payload |-> None]

\* verify_token(token) at time t
verify_token(token, t) ==
    LET decoded == jwt_decode(token, JWT_SECRET, t) IN
    IF decoded.raised = "ExpiredSignatureError" THEN HTTPUnauthorized("Token expired")
    ELSE IF decoded.raised \in InvalidTokenError THEN HTTPUnauthorized("Invalid token")
    ELSE [raised |-> "none", status |-> 0, error |-> "", payload |-> decoded.payload]

\* Token strings a client can send: nothing, the empty string, a string that
\* is no token, the issued token, the issued token with its roles rewritten,
\* and its payload signed with another key.
EmptyString == [str |-> ""]
Garbage == [str |-> "garbage"]
Tampered(token) ==
    [token EXCEPT !.payload = [roles |-> [list |-> <<"admin">>]] @@ token.payload]
Forged(token) == jwt_encode(token.payload, "other")

TokenStrings ==
    {EmptyString, Garbage}
        \cup (IF issued = None THEN {}
              ELSE {issued.token, Tampered(issued.token), Forged(issued.token)})

\* The Authorization header (absent: "") and the query parameter token.
AuthRequests ==
    [authorization : {EmptyString, [scheme |-> "Basic ", rest |-> Garbage]}
                        \cup {[scheme |-> "Bearer ", rest |-> t] : t \in TokenStrings},
     token : {None, Garbage} \cup (IF issued = None THEN {} ELSE {issued.token})]

\* extract_token_from_request(request)
extract_token_from_request(request) ==
    IF "scheme" \in DOMAIN request.authorization
       /\ request.authorization.scheme = "Bearer "
    THEN request.authorization.rest
    ELSE request.token

\* payload.get(name, default)
get(payload, name, default) ==
    IF name \in DOMAIN payload THEN payload[name] ELSE default

\* What a wrapper did: the exception it raised, whether it called the
\* wrapped function, and req.user / req.user_id ("unset" when not assigned).
Outcome(raised, called, user, user_id) ==
    [raised |-> raised.raised, status |-> raised.status, error |-> raised.error,
     called |-> called, user |-> user, user_id |-> user_id]
NotRaised == [raised |-> "none", status |-> 0, error |-> ""]
NotSet == [unset |-> TRUE]

\* require_auth without line 73: the claims are taken without verification.
require_auth_unverified(request, t) ==
    LET token == extract_token_from_request(request) IN
    IF ~truthy(token)
    THEN Outcome(HTTPUnauthorized("Authentication required"), FALSE, NotSet, NotSet)
    ELSE IF "payload" \notin DOMAIN token
    THEN Outcome(HTTPUnauthorized("Invalid token"), FALSE, NotSet, NotSet)
    ELSE Outcome(NotRaised, TRUE, token.payload, get(token.payload, "sub", None))

\* require_auth(func).wrapper at time t
require_auth(request, t) ==
    LET token == extract_token_from_request(request) IN
    IF ~truthy(token)
    THEN Outcome(HTTPUnauthorized("Authentication required"), FALSE, NotSet, NotSet)
    ELSE LET verified == verify_token(token, t) IN
         IF verified.raised # "none"
         THEN Outcome(verified, FALSE, NotSet, NotSet)
         ELSE Outcome(NotRaised, TRUE, verified.payload,
                      get(verified.payload, "sub", None))

\* optional_auth without the except clause of line 91.
optional_auth_strict(request, t) ==
    LET token == extract_token_from_request(request) IN
    IF truthy(token)
    THEN LET verified == verify_token(token, t) IN
         IF verified.raised # "none"
         THEN Outcome(verified, FALSE, NotSet, NotSet)
         ELSE Outcome(NotRaised, TRUE, verified.payload,
                      get(verified.payload, "sub", None))
    ELSE Outcome(NotRaised, TRUE, None, None)

\* optional_auth(func).wrapper at time t
optional_auth(request, t) ==
    LET token == extract_token_from_request(request) IN
    IF truthy(token)
    THEN LET verified == verify_token(token, t) IN
         IF verified.raised # "none"
         THEN Outcome(NotRaised, TRUE, None, None)
         ELSE Outcome(NotRaised, TRUE, verified.payload,
                      get(verified.payload, "sub", None))
    ELSE Outcome(NotRaised, TRUE, None, None)

\* line 110 with all() in place of any().
any_role_all(roles, user_roles) ==
    \A i \in 1..Len(roles) : \E j \in 1..Len(user_roles) : user_roles[j] = roles[i]

\* line 110: any(role in user_roles for role in roles)
any_role(roles, user_roles) ==
    \E i \in 1..Len(roles) : \E j \in 1..Len(user_roles) : user_roles[j] = roles[i]

\* raise exc.HTTPForbidden(json={"error": "Insufficient permissions"})
HTTPForbidden ==
    [raised |-> "HTTPForbidden", status |-> 403, error |-> "Insufficient permissions"]

\* require_roles(roles)(func).wrapper at time t: require_auth around the
\* role check.  role_check tells whether line 108 was reached.
require_roles(roles, request, t) ==
    LET authed == require_auth(request, t) IN
    IF authed.raised # "none"
    THEN [authed EXCEPT !.called = FALSE] @@ [role_check |-> FALSE]
    ELSE LET user_roles == get(authed.user, "roles", [list |-> <<>>]).list IN
         IF ~any_role(roles, user_roles)
         THEN Outcome(HTTPForbidden, FALSE, authed.user, authed.user_id)
                  @@ [role_check |-> TRUE]
         ELSE authed @@ [role_check |-> TRUE]

\* A call of create_token.
CreateToken(user_id, roles, extra_claims) ==
    /\ issued' = [token |-> create_token(user_id, roles, extra_claims, now),
                  user_id |-> user_id, roles |-> roles,
                  extra_claims |-> extra_claims, at |-> now]
    /\ auth' = [op |-> "create_token"]
    /\ UNCHANGED <<now, nonAuthVars>>

\* A call of verify_token.
VerifyToken(token) ==
    /\ auth' = [op |-> "verify_token", token |-> token, at |-> now]
                  @@ verify_token(token, now)
    /\ UNCHANGED <<now, issued, nonAuthVars>>

\* A request to a handler behind require_auth.
RequireAuth(request) ==
    /\ auth' = [op |-> "require_auth", request |-> request, at |-> now]
                  @@ require_auth(request, now)
    /\ UNCHANGED <<now, issued, nonAuthVars>>

\* A request to a handler behind optional_auth.
OptionalAuth(request) ==
    /\ auth' = [op |-> "optional_auth", request |-> request, at |-> now]
                  @@ optional_auth(request, now)
    /\ UNCHANGED <<now, issued, nonAuthVars>>

\* A request to a handler behind require_roles(roles).
RequireRoles(roles, request) ==
    /\ auth' = [op |-> "require_roles", roles |-> roles, request |-> request,
                at |-> now] @@ require_roles(roles, request, now)
    /\ UNCHANGED <<now, issued, nonAuthVars>>

\* One second passes.
AuthTick ==
    /\ now < MaxTime
    /\ now' = now + 1
    /\ UNCHANGED <<issued, auth, nonAuthVars>>

AuthInit ==
    /\ now = 0
    /\ issued = None
    /\ auth = [op |-> "none"]

AdminInit == admin = [op |-> "none", returned |-> None]

(***************************************************************************)
(* The collectors of metrics_middleware (src/core/metrics.py) and the      *)
(* requests inside the wrapper.                                            *)
(***************************************************************************)
Methods == {"GET", "POST"}
RecordedStatuses == {200, 404, 500}

\* What the wrapped function does with a request: it returns a response, it
\* returns a plain body, it raises an exception, or it is ended by an
\* exception that is no subclass of Exception.
WrappedCalls ==
    {Returned(Obj("Response", 200, "task")), Returned(Obj("Response", 404, "Task not found")),
     Returned(Obj("dict", 0, "index")), Raised("OperationalError"),
     Raised("KeyboardInterrupt")}

\* observed counts the calls of track_request_time for the request, served
\* the requests the worker has taken.
MIdle == [pc |-> "idle", method |-> "", out |-> None, observed |-> 0, served |-> 0]

MetricsInit ==
    /\ metrics = [active |-> [m \in Methods |-> 0],
                  requests |-> [l \in Methods \X RecordedStatuses |-> 0],
                  errors |-> 0]
    /\ mreq = [w \in Workers |-> MIdle]

\* wrapper, lines 129-134: ACTIVE_REQUESTS.labels(method).inc()
MEnter(w, method) ==
    /\ mreq[w].pc = "idle"
    /\ mreq[w].served < MaxServed
    /\ metrics' = [metrics EXCEPT !.active[method] = @ + 1]
    /\ mreq' = [mreq EXCEPT ![w] = [MIdle EXCEPT !.pc = "try", !.method = method,
                                                 !.served = mreq[w].served + 1]]
    /\ UNCHANGED nonMetricsVars

\* track_request_time, lines 84-91: one more in REQUEST_COUNT under the
\* method and the status.
track_request_time(requests, method, status) ==
    [requests EXCEPT ![<<method, status>>] = @ + 1]

\* wrapper, lines 136-164: the call of the wrapped function, and what the
\* try and the except clause record of it.
MCall(w, call) ==
    LET out == metrics_middleware(call)
        method == mreq[w].method
    IN /\ mreq[w].pc = "try"
       /\ metrics' = [metrics EXCEPT
              !.requests = IF out.recorded = -1 THEN @
                           ELSE track_request_time(@, method, out.recorded),
              !.errors = IF out.error_type = "" THEN @ ELSE @ + 1]
       /\ mreq' = [mreq EXCEPT ![w].pc = "finally", ![w].out = out,
                               ![w].observed = IF out.recorded = -1 THEN 0 ELSE 1]
       /\ UNCHANGED nonMetricsVars

\* Lines 165-166 as an else clause: the decrement after a return only.
active_requests_dec_on_return(mr, active) ==
    IF mr.out.raised = "none"
    THEN [active EXCEPT ![mr.method] = @ - 1]
    ELSE active

\* finally, lines 165-166: ACTIVE_REQUESTS.labels(method).dec()
active_requests_dec(mr, active) == [active EXCEPT ![mr.method] = @ - 1]

\* The request leaves the wrapper.
MExit(w) ==
    /\ mreq[w].pc = "finally"
    /\ metrics' = [metrics EXCEPT !.active = active_requests_dec(mreq[w], @)]
    /\ mreq' = [mreq EXCEPT ![w] = [MIdle EXCEPT !.served = mreq[w].served]]
    /\ UNCHANGED nonMetricsVars

\* Requests enter the wrapper at any time, on any free worker.
MetricsNext ==
    \/ \E w \in Workers, method \in Methods : MEnter(w, method)
    \/ \E w \in Workers, call \in WrappedCalls : MCall(w, call)
    \/ \E w \in Workers : MExit(w)

AuthNext ==
    \/ \E u \in UserIds, r \in RoleLists, e \in ExtraClaims : CreateToken(u, r, e)
    \/ \E t \in TokenStrings : VerifyToken(t)
    \/ \E r \in AuthRequests : RequireAuth(r)
    \/ \E r \in AuthRequests : OptionalAuth(r)
    \/ \E rs \in RequiredRoles, r \in AuthRequests : RequireRoles(rs, r)
    \/ AuthTick

\* Keyword arguments that a caller of create_token can pass as extra claims
\* and that bear the names of the claims create_token sets itself.
ReservedExtraClaims ==
    {[sub |-> [str |-> "9"]], [exp |-> MaxTime + JWT_EXPIRATION + 1], [iat |-> -1],
     [tenant |-> [str |-> "acme"]]}

\* Tokens issued with such extra claims, and their verification.
TokenClaimsNext ==
    \/ \E u \in UserIds, r \in RoleLists, e \in ReservedExtraClaims : CreateToken(u, r, e)
    \/ \E t \in TokenStrings : VerifyToken(t)
    \/ AuthTick

\* The limiter and the cache, one request at a time (the cached ones those
\* of one subject for /tasks), under any start-up environment and a server
\* that comes and goes.
StoreFaultsNext ==
    \/ \E w \in Workers, r \in ClientRequests :
           /\ \A v \in Workers : req[v].pc = "idle" /\ creq[v].pc = "idle"
           /\ Start(w, r)
    \/ RateLimitSteps
    \/ \E w \in Workers, r \in CacheRequests :
           /\ r.user_id = User1 /\ r.query_string = NoQuery
           /\ \A v \in Workers : req[v].pc = "idle" /\ creq[v].pc = "idle"
           /\ CStart(w, r)
    \/ CacheSteps
    \/ StoreDown
    \/ StoreUp

(***************************************************************************)
(* Specifications.                                                         *)
(***************************************************************************)
Init ==
    /\ RouterInit /\ RateLimitInit /\ EnvInit /\ CacheInit /\ AuthInit
    /\ AdminInit /\ MetricsInit
InitAny ==
    /\ RouterInit /\ RateLimitInit /\ EnvInitAny /\ CacheInit /\ AuthInit
    /\ AdminInit /\ MetricsInit

SpecRouter == Init /\ [][RouterNext]_vars
SpecDispatch == Init /\ [][DispatchNext]_vars
SpecRateLimit == Init /\ [][RateLimitNext]_vars
SpecRateLimitSeq == Init /\ [][RateLimitSeqNext]_vars
SpecRateLimitKeys == Init /\ [][RateLimitKeysNext]_vars
SpecRateLimitEnv == InitAny /\ [][RateLimitEnvNext]_vars
SpecCache == Init /\ [][CacheNext]_vars
SpecCacheSeq == Init /\ [][CacheSeqNext]_vars
SpecCacheOps == Init /\ [][CacheOpsNext]_vars
SpecCacheStore == Init /\ [][CacheStoreNext]_vars
SpecCacheKeys == Init /\ [][CacheKeysNext]_vars
SpecAdmin == InitAny /\ [][AdminNext]_vars
SpecMetrics == Init /\ [][MetricsNext]_vars
SpecAuth == Init /\ [][AuthNext]_vars
SpecTokenClaims == Init /\ [][TokenClaimsNext]_vars
SpecStoreFaults == InitAny /\ [][StoreFaultsNext]_vars

(***************************************************************************)
(* Properties of the router.                                               *)
(***************************************************************************)
\* The routes whose pattern matches the path.
PathMatching(path_info) ==
    {i \in 1..Len(routes) : pattern_match(routes[i].pattern, path_info).matched}

\* The routes whose pattern matches the path and that allow the method.
Fitting(method, path_info) ==
    {i \in PathMatching(path_info) : method \in routes[i].allowed_methods}

First(S) == CHOOSE i \in S : \A j \in S : i <= j

\* C1: find_route returns the handler, captured parameters and options of
\* the earliest-registered route whose pattern matches the path and whose
\* methods contain the request method, whatever routes follow it.
C1_EarliestRouteWins ==
    result.op = "app" =>
        LET fit == Fitting(result.method, result.path_info) IN
        fit # {} =>
            LET r == routes[First(fit)] IN
            result.found =
                [raised |-> "none", handler |-> r.handler,
                 params |-> pattern_match(r.pattern, result.path_info).groupdict,
                 options |-> r.options]

\* "/a" registered before the more specific "/a\n", both fit the request
\* "/a\n", and the handler of "/a" was returned.
C1_Witness ==
    /\ result.op = "app"
    /\ \E i, j \in Fitting(result.method, result.path_info) :
         /\ i < j
         /\ routes[i].uri_template = TplA
         /\ routes[j].uri_template = TplALf
         /\ routes[i].handler # routes[j].handler
         /\ result.found.raised = "none"
         /\ result.found.handler = routes[i].handler

\* C2: when the path matches some route's pattern but no path-matching route
\* allows the method, find_route raises MethodNotAllowed (405), not NotFound.
C2_MethodNotAllowed ==
    (/\ result.op = "app"
     /\ PathMatching(result.path_info) # {}
     /\ Fitting(result.method, result.path_info) = {})
        => /\ result.found.raised = "HTTPMethodNotAllowed"
           /\ result.response.status = 405

C2_Witness ==
    /\ result.op = "app"
    /\ Cardinality(PathMatching(result.path_info)) >= 2
    /\ Fitting(result.method, result.path_info) = {}
    /\ result.found.raised = "HTTPMethodNotAllowed"

\* C3: find_route raises NotFound (404) exactly when no registered route's
\* pattern matches the path, whatever the method; then no handler and no
\* callback is invoked.
C3_NotFound ==
    result.op = "app" =>
        /\ (result.found.raised = "HTTPNotFound")
               <=> (PathMatching(result.path_info) = {})
        /\ result.found.raised = "HTTPNotFound"
               => result.log = <<>> /\ result.response.status = 404

C3_Witness ==
    /\ result.op = "app"
    /\ result.found.raised = "HTTPNotFound"
    /\ routes # <<>>
    /\ before_callbacks # <<>>
    /\ after_callbacks # <<>>
    /\ result.log = <<>>

\* The template with value v in the place of each placeholder.
RECURSIVE substitute_from(_, _, _)
substitute_from(t, i, v) ==
    IF i > Len(t) THEN <<>>
    ELSE LET m == var_pattern_at(t, i) IN
         IF m.found THEN v \o substitute_from(t, m.end, v)
         ELSE <<t[i]>> \o substitute_from(t, i + 1, v)

\* The names of the template's placeholders.
RECURSIVE placeholder_names(_, _)
placeholder_names(t, i) ==
    IF i > Len(t) THEN {}
    ELSE LET m == var_pattern_at(t, i) IN
         IF m.found THEN {m.name} \cup placeholder_names(t, m.end)
         ELSE placeholder_names(t, i + 1)

\* C4: a template with typed placeholders, once registered, matches every
\* path built by substituting a valid value for each placeholder, and the
\* captured parameters are those values keyed by placeholder name.
C4_PlaceholderRoundTrip ==
    (result.op = "add" /\ has_placeholder_from(result.template, 1)) =>
        /\ result.raised = "none"
        /\ routes # <<>>
        /\ routes[Len(routes)].uri_template = result.template
        /\ \A v \in Values :
             LET m == pattern_match(routes[Len(routes)].pattern,
                                    substitute_from(result.template, 1, v))
             IN /\ m.matched
                /\ DOMAIN m.groupdict = placeholder_names(result.template, 1)
                /\ \A n \in DOMAIN m.groupdict : m.groupdict[n] = v

\* C10: the router passes a full protocol response of the handler chain
\* through unchanged, the 429 object returned by the rate limiter included,
\* and wraps only another result as a JSON body whose status comes from the
\* route options (default 200).
C10_ResponsePassThrough ==
    (result.op = "app" /\ result.found.raised = "none") =>
        /\ result.raised = "none"
        /\ IF result.returned.type = "dict"
           THEN /\ result.response.type = "Response"
                /\ result.response.body = result.returned.body
                /\ result.response.status =
                       (IF "status" \in DOMAIN result.found.options
                        THEN result.found.options["status"] ELSE 200)
           ELSE result.response = result.returned

\* The placeholders of a template from position i on, in order.
RECURSIVE placeholders_from(_, _)
placeholders_from(t, i) ==
    IF i > Len(t) THEN <<>>
    ELSE LET m == var_pattern_at(t, i) IN
         IF m.found THEN <<m>> \o placeholders_from(t, m.end)
         ELSE placeholders_from(t, i + 1)

\* A placeholder of the template names a type without pattern function.
UnknownType(t) ==
    LET ps == placeholders_from(t, 1) IN
    \E k \in 1..Len(ps) : type_of_var(ps[k]) \notin pattern_funcs

\* Two placeholders of the template have one name.
DuplicateNames(t) ==
    LET ps == placeholders_from(t, 1) IN
    \E j, k \in 1..Len(ps) : j < k /\ ps[j].name = ps[k].name

\* C24: registering a template with a placeholder of unknown type raises
\* (KeyError) at registration, no such template is ever in the route list,
\* and no dispatch raises that error.
C24_UnknownTypeFailsAtRegistration ==
    /\ (result.op = "add" /\ UnknownType(result.template)) => result.raised = "KeyError"
    /\ \A i \in 1..Len(routes) : ~UnknownType(routes[i].uri_template)
    /\ result.op = "app" => result.raised # "KeyError"

\* "/a/<id:b>" was refused while a route was registered.
C24_Witness ==
    /\ result.op = "add"
    /\ result.template = TplTyped
    /\ result.raised = "KeyError"
    /\ Len(routes) >= 1

\* C25: a registration of a template with two placeholders of one name
\* raises and leaves the route list as it was.
C25_DuplicateNamesFail ==
    [][(result'.op = "add" /\ DuplicateNames(result'.template))
           => (result'.raised # "none" /\ routes' = routes)]_vars

\* "/<x>/<x>" was refused while a route was registered.
C25_Witness ==
    /\ result.op = "add"
    /\ result.template = TplDup
    /\ result.raised # "none"
    /\ Len(routes) >= 1

(***************************************************************************)
(* Properties of the dispatch through the chain of wrappers.               *)
(***************************************************************************)
\* C21: the status metrics_middleware records for a request is the status
\* of the response the application delivers for it, also when an inner
\* layer raised (401 of the auth guard, 403 of the role check).
C21_MetricsFinalStatus ==
    (result.op = "app" /\ result.recorded # -1 /\ result.raised = "none")
        => result.recorded = result.response.status

\* C22: no exception leaves the application: what the handler chain raises
\* becomes an error response, and an exception that is no HTTP error is
\* counted and becomes a 500 response.
C22_NothingUncaught ==
    result.op = "app" =>
        /\ result.raised = "none"
        /\ (result.handler_raised \notin HTTPExceptions \cup {"none"})
               => (result.error_type # "" /\ result.response.status = 500)

\* C23: in a dispatch to a resolved route the before-callbacks ran in
\* registration order, then the handler, then the after-callbacks in
\* registration order.
C23_CallbacksAroundHandler ==
    (result.op = "app" /\ result.found.raised = "none") =>
        result.log = callback_events("before", before_callbacks)
                         \o <<[event |-> "handler", who |-> result.found.handler]>>
                         \o callback_events("after", after_callbacks)

(***************************************************************************)
(* Properties of the rate limiter.                                         *)
(***************************************************************************)
\* C5: requests arriving one after the other inside one window that started
\* from no counter: the n-th (n <= limit) is passed to the inner handler and
\* carries X-RateLimit-Remaining limit - n, so 0 after the limit-th; a later
\* one gets 429 with Remaining 0 and a positive Retry-After.
C5_SequentialWindow ==
    \A w \in Workers :
        (/\ req[w].pc = "done"
         /\ ~req[w].stale
         /\ ~window[req[w].key].tainted)
            => IF req[w].ord <= rate_limit_value
               THEN /\ req[w].called
                    /\ req[w].response.status = 200
                    /\ req[w].response.headers.limit = rate_limit_value
                    /\ req[w].response.headers.remaining = rate_limit_value - req[w].ord
               ELSE /\ ~req[w].called
                    /\ req[w].response.status = 429
                    /\ req[w].response.headers.remaining = 0
                    /\ req[w].response.headers.retryAfter > 0

\* Request limit + 1 of a window was answered 429.
C5_Witness ==
    \E w \in Workers :
        /\ req[w].pc = "done"
        /\ ~req[w].stale
        /\ ~window[req[w].key].tainted
        /\ req[w].ord = rate_limit_value + 1
        /\ req[w].response.status = 429
        /\ store[req[w].key].count = rate_limit_value

\* C6: a request that arrives when the counter key is gone (its time to live
\* elapsed) is admitted, and when it is the first to increment, the counter
\* becomes 1 with a fresh expiry of the full period.
C6_FreshWindowAfterExpiry ==
    [][\A w \in Workers :
         /\ (req[w].pc = "idle" /\ req'[w].pc # "idle"
                 /\ store[req'[w].key] = Absent)
                => req'[w].pc = "incr"
         /\ (req[w].pc = "incr" /\ req'[w].pc = "call"
                 /\ req[w].current = 0 /\ store[req[w].key] = Absent)
                => store'[req[w].key] = [count |-> 1, ttl |-> Period]
         /\ (req[w].pc = "call" /\ req'[w].pc # "call")
                => req'[w].called]_vars

\* A request was answered 429 in a window that has since expired, and a
\* request that arrived after the expiry has made the counter 1.
C6_Witness ==
    \E w, v \in Workers :
        /\ req[v].pc = "done"
        /\ req[v].response.status = 429
        /\ req[v].stale
        /\ req[w].pc = "call"
        /\ req[w].current = 0
        /\ ~req[w].stale
        /\ store[req[w].key] = [count |-> 1, ttl |-> Period]

\* C7: every counter key present in the store has an expiry set.
C7_EveryCounterExpires ==
    \A k \in Keys : store[k] # Absent => store[k].ttl >= 1

\* C8: during the lifetime of one counter key at most limit requests are
\* passed to the inner handler.
C8_AtMostLimitAdmitted ==
    \A k \in Keys : window[k].admitted <= rate_limit_value

\* C9: a request that read a count at or above the limit is answered 429
\* with X-RateLimit-Limit, X-RateLimit-Remaining 0, X-RateLimit-Reset and
\* Retry-After, without calling the inner handler or incrementing the counter.
C9_ShortCircuit ==
    \A w \in Workers :
        (req[w].pc # "idle" /\ req[w].current >= rate_limit_value)
            => /\ req[w].pc \in {"limited", "done"}
               /\ ~req[w].called
               /\ ~req[w].incremented
               /\ req[w].pc = "done"
                    => /\ req[w].response.type = "HTTPTooManyRequests"
                       /\ req[w].response.status = 429
                       /\ req[w].response.headers.limit = rate_limit_value
                       /\ req[w].response.headers.remaining = 0
                       /\ req[w].response.headers.resetIn > 0
                       /\ req[w].response.headers.retryAfter > 0

C9_Witness ==
    \E w \in Workers :
        /\ req[w].pc = "done"
        /\ req[w].current >= rate_limit_value
        /\ req[w].response.status = 429
        /\ ~req[w].called

(***************************************************************************)
(* Properties of the response cache.                                       *)
(***************************************************************************)
\* The X-Cache header of a response, "" when it has none.
x_cache(response) ==
    IF "X-Cache" \in DOMAIN response.headers THEN response.headers["X-Cache"] ELSE ""

\* C11: of two identical GET requests made one after the other within the
\* time to live of the entry, the first being a miss, the first calls the
\* handler and is tagged X-Cache: MISS, the second is tagged X-Cache: HIT
\* without calling the handler, and both carry the same body, status and
\* content type.
C11_MissThenHit ==
    \A w \in Workers : \A v \in creq[w].prev :
        ( /\ creq[w].pc = "done"
          /\ creq[v].pc = "done"
          /\ creq[w].request = creq[v].request
          /\ creq[v].request.method = "GET"
          /\ creq[v].cached_data = None
          /\ ~creq[v].old )
        => /\ creq[v].called
           /\ x_cache(creq[v].response) = "MISS"
           /\ ~creq[w].called
           /\ x_cache(creq[w].response) = "HIT"
           /\ creq[w].response.body = creq[v].response.body
           /\ creq[w].response.status = creq[v].response.status
           /\ creq[w].response.content_type = creq[v].response.content_type

\* A miss, then a write to the data, then the same request again: the second
\* came back with the body of the first, older than the data.
C11_Witness ==
    \E w \in Workers : \E v \in creq[w].prev :
        /\ creq[w].pc = "done"
        /\ creq[v].pc = "done"
        /\ creq[w].request = creq[v].request
        /\ creq[v].request.method = "GET"
        /\ creq[v].cached_data = None
        /\ ~creq[v].old
        /\ x_cache(creq[w].response) = "HIT"
        /\ creq[w].response.body.bytes.version < db

\* C12: two GET requests with the same path and query string and different
\* authenticated subject ids have different cache keys, and a request of one
\* subject is never answered from the entry stored for another subject.
C12_SubjectsKeptApart ==
    /\ \A r1, r2 \in CacheRequests :
         ( /\ r1.method = "GET" /\ r2.method = "GET"
           /\ r1.path_info = r2.path_info
           /\ r1.query_string = r2.query_string
           /\ r1.user_id # Unset /\ r2.user_id # Unset
           /\ r1.user_id # r2.user_id )
         => _generate_response_cache_key(r1, VaryHeaders)
                # _generate_response_cache_key(r2, VaryHeaders)
    /\ \A w \in Workers :
         ( /\ creq[w].pc = "done"
           /\ creq[w].cached_data # None
           /\ creq[w].request.user_id # Unset )
         => LET served == creq[w].response.body.bytes IN
            ( /\ served.path_info = creq[w].request.path_info
              /\ served.query_string = creq[w].request.query_string
              /\ served.user_id # Unset )
            => served.user_id = creq[w].request.user_id

\* Subject 2 was answered from the cache while an entry of subject 1 for the
\* same path and query string was in the store.
C12_Witness ==
    \E w \in Workers : \E r \in CacheRequests :
        /\ creq[w].pc = "done"
        /\ creq[w].cached_data # None
        /\ creq[w].request.user_id = User2
        /\ r.user_id = User1
        /\ r.method = "GET"
        /\ r.path_info = creq[w].request.path_info
        /\ r.query_string = creq[w].request.query_string
        /\ cache_store[_generate_response_cache_key(r, VaryHeaders)] # NoEntry

\* C13: a request that found a stored value comes back with the response
\* built from the stored body, status, content type and headers, tagged
\* X-Cache: HIT, and the handler was not called.
C13_HitFromStore ==
    \A w \in Workers :
        (creq[w].pc = "done" /\ creq[w].cached_data # None) =>
            LET cached == json_loads(creq[w].cached_data)
                response == creq[w].response
            IN /\ response.body = encode(cached.body)
               /\ response.status = cached.status
               /\ response.content_type = cached.content_type
               /\ \A n \in DOMAIN cached.headers :
                    n # "X-Cache" => response.headers[n] = cached.headers[n]
               /\ DOMAIN response.headers = DOMAIN cached.headers \cup {"X-Cache"}
               /\ x_cache(response) = "HIT"
               /\ ~creq[w].called
               /\ creq[w].raised = "none"

\* A request was answered from a stored value while another worker, on the
\* same key, was past its own miss.
C13_Witness ==
    \E w, v \in Workers :
        /\ creq[w].pc = "done"
        /\ creq[w].cached_data # None
        /\ creq[v].pc = "set"
        /\ creq[v].key = creq[w].key

(***************************************************************************)
(* Properties of tokens and the authentication wrappers.                   *)
(***************************************************************************)
\* The token a request carries: the Bearer value of the Authorization
\* header, else the query parameter token.
Carried(request) ==
    IF request.authorization # EmptyString /\ request.authorization.scheme = "Bearer "
    THEN request.authorization.rest
    ELSE request.token

\* A token in the format of jwt.encode, signed with the configured secret.
Signed(token) ==
    /\ token # None
    /\ "payload" \in DOMAIN token
    /\ token.signature = [key |-> JWT_SECRET, signed |-> token.payload]

\* A signed token that has not reached its expiry at time t.
Valid(token, t) == Signed(token) /\ t < token.payload.exp

\* The roles claim of a payload as a set, empty without the claim.
RolesOf(payload) ==
    IF "roles" \in DOMAIN payload
    THEN {payload.roles.list[i] : i \in 1..Len(payload.roles.list)}
    ELSE {}

\* C14 as stated: verify_token(create_token(subject, roles)) before expiry
\* returns claims holding the subject id and the roles that were given.
C14_RoundTripSame ==
    ( /\ auth.op = "verify_token"
      /\ issued # None
      /\ issued.roles # None
      /\ auth.token = issued.token
      /\ auth.at < issued.at + JWT_EXPIRATION )
    => /\ auth.raised = "none"
       /\ auth.payload.sub = issued.user_id
       /\ "roles" \in DOMAIN auth.payload
       /\ auth.payload.roles = issued.roles

\* C14: verify_token(create_token(subject, roles)) before expiry returns
\* claims whose sub is str(subject) and whose roles are the given list when
\* that list is not empty; for an empty or missing list the claims hold no
\* roles entry.
C14_RoundTrip ==
    ( /\ auth.op = "verify_token"
      /\ issued # None
      /\ auth.token = issued.token
      /\ auth.at < issued.at + JWT_EXPIRATION )
    => /\ auth.raised = "none"
       /\ auth.payload.sub =
              (IF "int" \in DOMAIN issued.user_id
               THEN [str |-> ToString(issued.user_id.int)] ELSE issued.user_id)
       /\ IF issued.roles \in {None, [list |-> <<>>]}
          THEN "roles" \notin DOMAIN auth.payload
          ELSE /\ "roles" \in DOMAIN auth.payload
               /\ auth.payload.roles = issued.roles

\* The token made for the integer id 1 with an empty role list was verified
\* before its expiry.
C14_Witness ==
    /\ auth.op = "verify_token"
    /\ issued # None
    /\ auth.token = issued.token
    /\ auth.at < issued.at + JWT_EXPIRATION
    /\ issued.user_id = [int |-> 1]
    /\ issued.roles = [list |-> <<>>]
    /\ auth.raised = "none"

\* C15: an issued token carries exp = iat + the configured lifetime;
\* verify_token raises 401 "Token expired" for a signed token at every time
\* at or after exp, 401 "Invalid token" for a string that is no token or is
\* not signed with the secret, and returns the claims of a signed token at
\* every time before exp.
C15_ExpiryAndFailures ==
    /\ issued # None =>
         /\ issued.token.payload.iat = issued.at
         /\ issued.token.payload.exp = issued.token.payload.iat + JWT_EXPIRATION
    /\ auth.op = "verify_token" =>
         IF ~Signed(auth.token)
         THEN /\ auth.raised = "HTTPUnauthorized" /\ auth.status = 401
              /\ auth.error = "Invalid token"
         ELSE IF auth.at >= auth.token.payload.exp
         THEN /\ auth.raised = "HTTPUnauthorized" /\ auth.status = 401
              /\ auth.error = "Token expired"
         ELSE /\ auth.raised = "none"
              /\ auth.payload = auth.token.payload

\* The issued token was verified in the very second of its expiry and was
\* refused as expired.
C15_Witness ==
    /\ auth.op = "verify_token"
    /\ Signed(auth.token)
    /\ auth.at = auth.token.payload.exp
    /\ auth.raised = "HTTPUnauthorized"
    /\ auth.error = "Token expired"

\* C16: behind require_auth the handler is called exactly for a request
\* whose carried token verifies, and then req.user holds the claims and
\* req.user_id the subject id; for a missing, expired or invalid token the
\* wrapper raises 401 and the handler is not called.
C16_RequireAuth ==
    auth.op = "require_auth" =>
        LET token == Carried(auth.request) IN
        IF Valid(token, auth.at)
        THEN /\ auth.called /\ auth.raised = "none"
             /\ auth.user = token.payload
             /\ auth.user_id = token.payload.sub
        ELSE /\ ~auth.called
             /\ auth.raised = "HTTPUnauthorized" /\ auth.status = 401

\* A request without Authorization header whose query parameter holds a
\* valid token reached the handler.
C16_Witness ==
    /\ auth.op = "require_auth"
    /\ auth.request.authorization = EmptyString
    /\ Valid(auth.request.token, auth.at)
    /\ auth.called

\* C17: behind require_roles(R) the handler is called exactly for a request
\* whose token is valid and whose roles claim shares a role with R; a valid
\* token sharing none (or holding no roles claim) gives 403 without the
\* call; a missing or invalid token gives 401 before the roles are looked at.
C17_RequireRoles ==
    auth.op = "require_roles" =>
        LET token == Carried(auth.request)
            R == {auth.roles[i] : i \in 1..Len(auth.roles)}
        IN IF ~Valid(token, auth.at)
           THEN /\ ~auth.called /\ ~auth.role_check
                /\ auth.raised = "HTTPUnauthorized" /\ auth.status = 401
           ELSE IF RolesOf(token.payload) \cap R # {}
           THEN auth.called /\ auth.raised = "none"
           ELSE /\ ~auth.called
                /\ auth.raised = "HTTPForbidden" /\ auth.status = 403

\* A valid token without roles claim was refused with 403.
C17_Witness ==
    /\ auth.op = "require_roles"
    /\ Valid(Carried(auth.request), auth.at)
    /\ "roles" \notin DOMAIN Carried(auth.request).payload
    /\ auth.status = 403
    /\ ~auth.called

\* C18: behind optional_auth the handler is called for every request; with
\* a valid token req.user and req.user_id hold the claims and the subject
\* id, and without a token or with one that fails verification both are
\* None; the wrapper never raises 401.
C18_OptionalAuth ==
    auth.op = "optional_auth" =>
        LET token == Carried(auth.request) IN
        /\ auth.called
        /\ auth.raised = "none"
        /\ auth.status # 401
        /\ IF Valid(token, auth.at)
           THEN auth.user = token.payload /\ auth.user_id = token.payload.sub
           ELSE auth.user = None /\ auth.user_id = None

\* A request with an expired token reached the handler as anonymous.
C18_Witness ==
    /\ auth.op = "optional_auth"
    /\ Signed(Carried(auth.request))
    /\ auth.at >= Carried(auth.request).payload.exp
    /\ auth.called
    /\ auth.user = None

(***************************************************************************)
(* Properties of the limiter and the cache when switched off or cut off.   *)
(***************************************************************************)
\* C19: with rate limiting switched off, by the flag or because the module
\* holds no store client, every request goes to the inner function and its
\* response comes back as the function made it: no X-RateLimit-* or
\* Retry-After header, never a 429, and no command sent to the store.
C19_DisabledPassThrough ==
    (~settings.RATE_LIMIT_ENABLED \/ redis_client.rate_limit = "None") =>
        /\ store = [k \in Keys |-> Absent]
        /\ \A w \in Workers :
             /\ req[w].pc \in {"idle", "done"}
             /\ req[w].pc = "done" =>
                  /\ req[w].called
                  /\ req[w].raised = "none"
                  /\ req[w].response = inner_response
                  /\ req[w].response.headers = NoHeaders
                  /\ req[w].response.status # 429
                  /\ req[w].commands = 0

\* The flag is off while the client is connected and the server answers,
\* and a request has come back.
C19_Witness ==
    /\ ~settings.RATE_LIMIT_ENABLED
    /\ redis_client.rate_limit = "client"
    /\ reachable
    /\ \E w \in Workers : req[w].pc = "done" /\ req[w].called

\* C20: a request handled while the store does not answer, the store having
\* answered at start-up or not, is passed through by the limiter and by the
\* cache: the wrapper raises nothing, calls the inner function and returns
\* its response.
C20_UnreachablePassThrough ==
    \A w \in Workers :
        /\ req[w].raised = "none"
        /\ creq[w].raised = "none"
        /\ (req[w].pc = "done" /\ ~reachable /\ req[w].response.status # 429)
               => req[w].called
        /\ (creq[w].pc = "done" /\ ~reachable /\ creq[w].cached_data = None)
               => creq[w].called

(***************************************************************************)
(* Properties of what the response cache stores and when an entry goes.    *)
(***************************************************************************)
\* C26: a request whose method is not GET always gets the call of the inner
\* handler; the cache is neither looked up nor written for it, and its
\* response carries no X-Cache header.
C26_NonGetBypasses ==
    [][\A w \in Workers :
          ( /\ creq[w].pc = "idle"
            /\ creq'[w].pc # "idle"
            /\ creq'[w].request.method # "GET" )
          => /\ creq'[w].pc = "done"
             /\ creq'[w].called
             /\ creq'[w].response = handler_response(creq'[w].request, db)
             /\ x_cache(creq'[w].response) = ""
             /\ creq'[w].cached_data = None
             /\ creq'[w].commands = 0
             /\ cache_store' = cache_store]_vars

\* A POST has come back from the handler while the store held an entry for
\* its path and subject.
C26_Witness ==
    \E w \in Workers :
        /\ creq[w].pc = "done"
        /\ creq[w].request.method = "POST"
        /\ creq[w].called
        /\ creq[w].commands = 0
        /\ cache_store[_generate_response_cache_key(creq[w].request, VaryHeaders)] # NoEntry

\* C27: only successful responses are stored: no entry holds an error status,
\* and a GET that is answered with an error status has called the handler.
C27_OnlySuccessStored ==
    /\ \A k \in CacheKeys :
           cache_store[k] # NoEntry => json_loads(cache_store[k].value).status < 400
    /\ \A w \in Workers :
           ( /\ creq[w].pc = "done"
             /\ creq[w].request.method = "GET"
             /\ creq[w].response # None
             /\ creq[w].response.status >= 400 )
           => creq[w].called

\* C28: the step after the call on a miss: a response that cannot be
\* serialized leaves the key as it was and is returned as the handler gave
\* it, without X-Cache; any other response is stored with the timeout of the
\* decorator, or the configured default when none was given, and is returned
\* tagged X-Cache: MISS.
C28_MissStoresOrSkips ==
    [][\A w \in Workers :
          (creq[w].pc = "set" /\ creq'[w].pc = "done")
          => LET response == creq[w].response
                 k == creq[w].key
             IN IF response.body.bytes = InvalidUtf8
                THEN /\ cache_store'[k] = cache_store[k]
                     /\ creq'[w].response = response
                     /\ x_cache(creq'[w].response) = ""
                ELSE /\ cache_store'[k] # NoEntry
                     /\ cache_store'[k].ttl =
                            (IF creq[w].request.path_info = PathNoTimeout
                             THEN CACHE_DEFAULT_TIMEOUT ELSE CacheTimeout)
                     /\ json_loads(cache_store'[k].value).body.str = response.body.bytes
                     /\ json_loads(cache_store'[k].value).status = response.status
                     /\ x_cache(creq'[w].response) = "MISS"
                     /\ creq'[w].response.body = response.body
                     /\ creq'[w].response.status = response.status]_vars

\* One request has come back with its body of bytes that do not decode,
\* untagged and with nothing stored; another has come back tagged MISS with
\* its entry stored for the default time.
C28_Witness ==
    \E w, v \in Workers :
        /\ creq[w].pc = "done"
        /\ creq[w].request.path_info = PathBinary
        /\ creq[w].called
        /\ x_cache(creq[w].response) = ""
        /\ cache_store[creq[w].key] = NoEntry
        /\ creq[v].pc = "done"
        /\ creq[v].request.path_info = PathNoTimeout
        /\ x_cache(creq[v].response) = "MISS"
        /\ cache_store[creq[v].key] # NoEntry
        /\ cache_store[creq[v].key].ttl = CACHE_DEFAULT_TIMEOUT

\* C29: two identical GET requests in flight at the same time never both
\* find no entry, both call the handler and both store.
C29_LookupStoreAtomic ==
    \A w, v \in Workers :
        ( /\ w # v
          /\ creq[w].pc = "done"
          /\ creq[v].pc = "done"
          /\ creq[w].request = creq[v].request
          /\ creq[w].request.method = "GET"
          /\ w \notin creq[v].prev
          /\ v \notin creq[w].prev )
        => ~( /\ creq[w].cached_data = None /\ creq[v].cached_data = None
              /\ creq[w].called /\ creq[v].called
              /\ creq[w].commands = 2 /\ creq[v].commands = 2
              /\ x_cache(creq[w].response) = "MISS"
              /\ x_cache(creq[v].response) = "MISS" )

\* C30: an entry goes only in a step that is no step of a request: when its
\* time to live has run out, or in an eviction call, which takes every
\* response entry.  A GET that begins while its entry is there is a HIT from
\* that entry without the call of the handler, whatever has been written
\* since; a GET that begins when the entry is gone is a miss that goes on to
\* the call of the handler.
C30_RemovedByExpiryOrEviction ==
    [][/\ \A k \in CacheKeys :
             (cache_store[k] # NoEntry /\ cache_store'[k] = NoEntry)
             => /\ \A w \in Workers : /\ creq'[w].pc = creq[w].pc
                                      /\ creq'[w].request = creq[w].request
                /\ \/ cache_store[k].ttl = 1
                   \/ \A j \in CacheKeys : cache_store'[j] = NoEntry
       /\ \A w \in Workers :
             ( /\ creq[w].pc = "idle"
               /\ creq'[w].pc # "idle"
               /\ creq'[w].request.method = "GET" )
             => LET k == creq'[w].key IN
                IF cache_store[k] # NoEntry
                THEN /\ creq'[w].pc = "done"
                     /\ ~creq'[w].called
                     /\ x_cache(creq'[w].response) = "HIT"
                     /\ creq'[w].response.body.bytes =
                            json_loads(cache_store[k].value).body.str
                     /\ cache_store' = cache_store
                ELSE /\ creq'[w].pc = "call"
                     /\ ~creq'[w].called]_vars

\* A GET came back as a HIT after a POST to the same path had come back: the
\* body it carries is older than the data.
C30_Witness ==
    \E w \in Workers : \E v \in creq[w].prev :
        /\ creq[w].pc = "done"
        /\ creq[w].request.method = "GET"
        /\ x_cache(creq[w].response) = "HIT"
        /\ creq[v].pc = "done"
        /\ creq[v].request.method = "POST"
        /\ creq[v].request.path_info = creq[w].request.path_info
        /\ creq[w].response.body.bytes.version < db

(***************************************************************************)
(* Further properties of the router.                                       *)
(***************************************************************************)
\* C33: when find_route fails with MethodNotAllowed, the failure names the
\* union of the allowed methods of the routes whose pattern matches the path.
C33_AllowedMethodsReported ==
    (result.op = "app" /\ result.found.raised = "HTTPMethodNotAllowed")
        => result.found.allow =
               UNION {routes[i].allowed_methods : i \in PathMatching(result.path_info)}

(***************************************************************************)
(* Further properties of the rate limiter.                                 *)
(***************************************************************************)
\* C32: an admitted request returns with X-RateLimit-Remaining equal to
\* max(0, limit - the value of the counter after the request's own
\* increment), whatever other requests of the identity did meanwhile.
C32_RemainingAfterOwnIncrement ==
    \A w \in Workers :
        ( /\ req[w].pc = "done"
          /\ req[w].incremented
          /\ req[w].called
          /\ req[w].raised = "none" )
        => req[w].response.headers.remaining =
               (IF rate_limit_value - req[w].incr_result > 0
                THEN rate_limit_value - req[w].incr_result ELSE 0)

(***************************************************************************)
(* Further properties of tokens.                                           *)
(***************************************************************************)
\* C39: whatever the extra claims are, the issued token's subject is the
\* given subject id, its issued-at the time of issue and its expiry that
\* time plus JWT_EXPIRATION.
C39_ReservedClaimsKept ==
    issued # None =>
        /\ issued.token.payload.sub = str(issued.user_id)
        /\ issued.token.payload.iat = issued.at
        /\ issued.token.payload.exp = issued.at + JWT_EXPIRATION

(***************************************************************************)
(* Further properties of the cache key.                                    *)
(***************************************************************************)
\* C35: two GET requests that differ in path, query string or subject never
\* have the same key, and a response served from the store is the response
\* to the request's own path, query string and subject.
C35_FingerprintInjective ==
    /\ \A w, v \in Workers :
           ( /\ creq[w].key # None
             /\ creq[v].key # None
             /\ creq[w].request # creq[v].request )
           => creq[w].key # creq[v].key
    /\ \A w \in Workers :
           (creq[w].pc = "done" /\ x_cache(creq[w].response) = "HIT")
           => /\ creq[w].response.body.bytes.path_info = creq[w].request.path_info
              /\ creq[w].response.body.bytes.query_string = creq[w].request.query_string
              /\ creq[w].response.body.bytes.user_id = creq[w].request.user_id

(***************************************************************************)
(* Properties of the limiter's keys.                                       *)
(***************************************************************************)
\* The identity of a request: the subject when there is one, else the first
\* entry of X-Forwarded-For, else the peer address.
ClientIdentity(r) ==
    IF r.user_id # "" THEN <<"user", r.user_id>>
    ELSE IF r.forwarded_for # <<>> THEN <<"ip", Head(r.forwarded_for)>>
    ELSE <<"ip", r.remote_addr>>

\* The counter of a request under a prefix.
CounterOf(kr) == <<"ratelimit", kr.key_prefix, ClientIdentity(kr.request)>>

\* C34: a request counts under its prefix and its identity (subject, else
\* first forwarded address, else peer address); a counter changes only by
\* the increment of a request of its own prefix and identity or by the
\* passing of time; whether a request is admitted and the Remaining header
\* it returns with depend on its own counter only.
C34_IdentityPartition ==
    [][/\ \A w \in Workers :
             req'[w].pc # "idle" => req'[w].key = CounterOf(given'[w])
       /\ \A k \in Keys :
             store'[k] # store[k]
             => \/ \E w \in Workers : /\ req[w].pc = "incr"
                                      /\ req'[w].pc = "call"
                                      /\ CounterOf(given[w]) = k
                \/ \A w \in Workers : req'[w] = [req[w] EXCEPT !.stale = req'[w].stale]
       /\ \A w \in Workers :
             (req[w].pc = "idle" /\ req'[w].pc # "idle")
             => LET own == store[CounterOf(given'[w])] IN
                /\ req'[w].current = own.count
                /\ (req'[w].pc = "limited") <=> (own.count >= rate_limit_value)
                /\ (req'[w].pc = "incr") <=> (own.count < rate_limit_value)
       /\ \A w \in Workers :
             (req[w].pc = "headers" /\ req'[w].pc = "done")
             => req'[w].response.headers.remaining =
                    (IF rate_limit_value - (req[w].current + 1) > 0
                     THEN rate_limit_value - (req[w].current + 1) ELSE 0)]_vars

\* The subject's request was admitted as the first of its window while the
\* counter of the address it was forwarded for, under the same prefix, stood
\* at the limit, and the peer's counters were untouched.
C34_Witness ==
    \E w \in Workers :
        /\ req[w].pc = "done"
        /\ given[w] = [request |-> SubjectRequest, key_prefix |-> "login"]
        /\ req[w].called
        /\ req[w].response.headers.remaining = rate_limit_value - 1
        /\ store[CounterOf([request |-> ForwardedRequest, key_prefix |-> "login"])].count
               = rate_limit_value
        /\ store[CounterOf([request |-> PeerRequest, key_prefix |-> "login"])] = Absent
        /\ store[CounterOf([request |-> PeerRequest, key_prefix |-> "register"])].count = 1

(***************************************************************************)
(* Properties of the administrative calls.                                 *)
(***************************************************************************)
EvictionStep == (\E p \in EvictPatterns : InvalidateCache(p)) \/ ClearCache

\* C37: no call of invalidate_cache(pattern) or clear_cache changes a
\* counter of the limiter or its expiry.
C37_EvictionKeepsCounters == [][EvictionStep => store' = store]_vars

StoredCacheKeys == {k \in CacheKeys : cache_store[k] # NoEntry}
StoredCounters == {k \in Keys : store[k] # Absent}

\* C31: invalidate_cache(pattern) deletes the keys of the shared store whose
\* text contains the pattern, those and no others, and returns their number;
\* clear_cache deletes every entry of the function cache and of the response
\* cache and returns their number, and a GET that looks up afterwards misses;
\* without a client both return 0 and nothing changes.
C31_Eviction ==
    [][ /\ \A p \in EvictPatterns : InvalidateCache(p) =>
               IF redis_client.cache = "None"
               THEN admin'.returned = 0 /\ cache_store' = cache_store /\ store' = store
               ELSE LET hit == {k \in StoredCacheKeys : Contains(key_text(k), p)}
                        hit_counters == {k \in StoredCounters : Contains(rate_key_text(k), p)}
                    IN /\ \A k \in CacheKeys :
                              cache_store'[k] = IF k \in hit THEN NoEntry ELSE cache_store[k]
                       /\ \A k \in Keys :
                              store'[k] = IF k \in hit_counters THEN Absent ELSE store[k]
                       /\ admin'.returned = Cardinality(hit) + Cardinality(hit_counters)
        /\ ClearCache =>
               IF redis_client.cache = "None"
               THEN admin'.returned = 0 /\ cache_store' = cache_store /\ store' = store
               ELSE /\ \A k \in CacheKeys : cache_store'[k] = NoEntry
                    /\ admin'.returned = Cardinality(StoredCacheKeys)
                    /\ \A r \in AdminRequests :
                           cache_store'[_generate_response_cache_key(r, VaryHeaders)] = NoEntry
        /\ \A r \in AdminRequests :
               ( /\ CStart("w1", r)
                 /\ ~cache_off /\ reachable
                 /\ cache_store[_generate_response_cache_key(r, VaryHeaders)] = NoEntry )
               => creq'["w1"].pc = "call"
      ]_vars

\* clear_cache has deleted an entry of each cache while a counter of the
\* limiter is stored.
C31_Witness ==
    /\ admin.op = "clear_cache"
    /\ admin.returned = 2
    /\ StoredCounters # {}

\* C36: reset_rate_limit deletes the counter of the request's prefix and
\* identity, so that the identity's next request reads no count, and returns
\* whether there was one; every other counter and every cache entry stays as
\* it was; with the limiter switched off it returns False and nothing changes.
C36_ResetOneCounter ==
    [][\A kr \in AdminKeyedRequests : ResetRateLimit(kr) =>
           LET k == _get_rate_limit_key(kr.request, kr.key_prefix) IN
           /\ cache_store' = cache_store
           /\ IF rate_limit_off
              THEN admin'.returned = FALSE /\ store' = store
              ELSE /\ store'[k] = Absent
                   /\ current_of(redis_get(store'[k])) = 0
                   /\ \A j \in Keys \ {k} : store'[j] = store[j]
                   /\ admin'.returned = (store[k] # Absent)
      ]_vars

\* The counter of an identity under login has been reset while the counter
\* of another identity under login, the counter of the same identity under
\* register and a cache entry are stored.
C36_Witness ==
    /\ admin.op = "reset_rate_limit"
    /\ admin.returned = TRUE
    /\ store[_get_rate_limit_key(PeerRequest, "login")] = Absent
    /\ store[_get_rate_limit_key(SubjectRequest, "login")] # Absent
    /\ store[_get_rate_limit_key(PeerRequest, "register")] # Absent
    /\ StoredCacheKeys # {}

(***************************************************************************)
(* Properties of the metrics.                                              *)
(***************************************************************************)
InWrapper(method) == {w \in Workers : mreq[w].pc # "idle" /\ mreq[w].method = method}

\* The gauge of a method is the number of requests of the method between the
\* entry of the wrapper and its exit; it is never negative and it is 0 when
\* none is in flight.
GaugeCountsRequests ==
    \A method \in Methods :
        /\ metrics.active[method] = Cardinality(InWrapper(method))
        /\ metrics.active[method] >= 0
        /\ (\A w \in Workers : mreq[w].pc = "idle") => metrics.active[method] = 0

\* C38 as stated: the gauge counts the requests inside the wrapper, and
\* every request whose call has ended, by a return or by whatever was
\* raised, has added one observation to the request counter.
C38_GaugeAndOneObservation ==
    /\ GaugeCountsRequests
    /\ \A w \in Workers : mreq[w].pc = "finally" => mreq[w].observed = 1

\* C38: the gauge counts the requests inside the wrapper whether the call
\* returned or raised; a request whose call returned or raised an Exception
\* has added one observation to the request counter, a request ended by an
\* exception that is no Exception has added none.
C38_GaugeAndObservationOfExceptions ==
    /\ GaugeCountsRequests
    /\ \A w \in Workers :
           mreq[w].pc = "finally" =>
               mreq[w].observed = IF mreq[w].out.raised \in BaseExceptions THEN 0 ELSE 1

\* Every worker is idle again after a request that raised and a request that
\* was ended by a KeyboardInterrupt, one of them observed.
C38_Witness ==
    /\ \A w \in Workers : mreq[w].pc = "idle"
    /\ \E w \in Workers : mreq[w].served = 2
    /\ metrics.errors = 1
    /\ metrics.requests[<<"GET", 500>>] = 1
    /\ \A l \in Methods \X RecordedStatuses : l # <<"GET", 500>> => metrics.requests[l] = 0

====
